---- MODULE Spec2Model ----
(***************************************************************************)
(* A model of the ETL and enrichment pipeline of the marketing             *)
(* intelligence dashboard: the text normaliser and the Reddit processor    *)
(* (src/src/etl/process_data.py), the sentiment stage                      *)
(* (src/src/ml/sentiment_analysis.py), the topic labeller                  *)
(* (src/src/ml/topic_modeling.py) and the SQLite sink                      *)
(* (src/src/etl/load_to_sqlite.py).                                        *)
(*                                                                         *)
(* Each stage is a run-to-completion script, so each has a specification   *)
(* of its own over the shared variables:                                   *)
(*   SpecClean      clean_text applied to an input, then to its own output *)
(*   SpecMetrics    DataProcessor.process on posts that vary in counters   *)
(*   SpecDedupe     DataProcessor.process on posts that vary in post_id    *)
(*   SpecSentiment  SentimentAnalyzer.analyze, one step per statement      *)
(*   SpecLoad       SQLiteLoader.load, run any number of times             *)
(*   SpecInsert     SQLiteLoader.load on processed files of any shape      *)
(*   SpecMerge      SQLiteLoader.load with sentiment ids that may repeat   *)
(*   SpecYoutube    process_youtube_data on a file of several comments     *)
(*   SpecExtract    extract_video_comments on the pages of one video       *)
(*   SpecTopicAgain TopicModeler.run called repeatedly on one instance     *)
(*   SpecReplace    SQLiteLoader.load statement by statement, and a reader *)
(*   SpecEngagement DataProcessor.process and process_youtube_data.main    *)
(*   SpecTopicRun   TopicModeler.run                                       *)
(*   SpecKpi        generate_kpi_data.main, run any number of times        *)
(*   SpecLengths    DataProcessor.process on posts with or without text    *)
(*   SpecFallback   DataProcessor.process with a collection and JSON files *)
(*                  that differ                                            *)
(*   SpecMain       the main() of sentiment_analysis.py and of             *)
(*                  load_to_sqlite.py, each run once                       *)
(*   SpecStages     process_youtube_data, SentimentAnalyzer.analyze and    *)
(*                  SQLiteLoader.load, run in that order                   *)
(*   SpecTopic      TopicModeler._assign_topic_label                       *)
(*                                                                         *)
(* Python values are records tagged by kind; a string is a sequence of     *)
(* one-character strings.  Floats that the code compares or scales are     *)
(* kept exact as integers (hundredths for confidences, tenths for the      *)
(* engagement weights).                                                    *)
(***************************************************************************)
EXTENDS Integers, Sequences, FiniteSets, TLC

VARIABLES
    \* ---- clean_text harness
    text,            \* the argument of clean_text
    cleaned,         \* clean_text(text), or Unset
    recleaned,       \* clean_text(cleaned), or Unset
    \* ---- DataProcessor.process
    mongo_up,        \* whether MongoClient(...).server_info() succeeds
    mongo_docs,      \* the documents of the reddit_raw collection
    json_posts,      \* the posts under data/raw_json, or None (no directory)
    processed_csv,   \* data/processed_reddit_data.csv, or None (no file)
    proc_ret,        \* what process() returned, or Unset
    \* ---- SentimentAnalyzer.analyze
    sa_pc,           \* the statement analyze() is at
    batch_size,      \* ML_CONFIG['batch_size']
    sa_df,           \* the data frame of analyze()
    texts,           \* the list handed to analyze_sentiment
    batch_i,         \* the loop variable i of analyze_sentiment
    results,         \* the results list of analyze_sentiment, or None
    calls,           \* the classifier's calls: batch received, outcome
    results_file,    \* data/sentiment_results.csv, or None (no file)
    sa_ret,          \* what analyze() returned, or Unset
    \* ---- SQLiteLoader.load
    youtube_processed, \* the sink table, or None (no such table)
    processed_json,  \* data/youtube_processed.json, or None
    sentiment_csv,   \* data/youtube_sentiment.csv, or None
    final_df,        \* df_final of insert_to_database, or Unset
    load_ret,        \* what load() returned, or Unset
    loads,           \* how many times load() has run
    table_before,    \* the sink table as the last load() found it
    \* ---- TopicModeler._assign_topic_label
    top_words,       \* the top words of a topic
    topic_label,     \* the label assigned, or Unset
    \* ---- process_youtube_data.main
    youtube_comments, \* data/youtube_comments.json, or None (no file)
    yt_ret,          \* how main() ended, or Unset
    \* ---- TopicModeler.run
    tm_topics,       \* self.topics
    tm_dists,        \* the topic distribution of every prepared text
    tm_file,         \* data/topic_modeling_results.csv, or None (no file)
    tm_ret,          \* what run() returned, or Unset
    \* ---- the main() of sentiment_analysis.py and of load_to_sqlite.py
    sa_exit,         \* the exit status of sentiment_analysis.py, or Unset
    load_exit,       \* the exit status of load_to_sqlite.py, or Unset
    \* ---- a load() whose statements interleave with a reader of the table
    load_pc,         \* where to_sql is: "idle", "dropped", "created", "done"
    reader_saw,      \* what the reader's query returned and when, or Unset
    \* ---- generate_kpi_data.main
    kpi_db,          \* the rows of each aggregate table, None for no table
    kpi_pc,          \* the generator main() is about to call, or "idle"
    kpi_runs,        \* how many times main() was started
    kpi_ret,         \* how the last main() ended: None, raised, or Unset
    \* ---- YouTubeExtractor.extract_video_comments
    ex_pc,           \* "idle", "loop", "break" or "done"
    video_threads,   \* how many comment threads the video has
    max_comments,    \* the argument max_comments
    comments,        \* the local list comments: the threads appended so far
    next_page_token, \* the local next_page_token: None or a position
    requests,        \* the commentThreads().list calls made, in order
    ex_ret           \* the list returned, or Unset

cleanVars == <<text, cleaned, recleaned>>
procVars  == <<mongo_up, mongo_docs, json_posts, processed_csv, proc_ret>>
sentVars  == <<sa_pc, batch_size, sa_df, texts, batch_i, results, calls,
               results_file, sa_ret>>
loadVars  == <<youtube_processed, processed_json, sentiment_csv, final_df,
               load_ret, loads, table_before>>
topicVars == <<top_words, topic_label>>
ytVars    == <<youtube_comments, yt_ret>>
tmVars    == <<tm_topics, tm_dists, tm_file, tm_ret>>
mainVars  == <<sa_exit, load_exit>>
readVars  == <<load_pc, reader_saw>>
kpiVars   == <<kpi_db, kpi_pc, kpi_runs, kpi_ret>>
exVars    == <<ex_pc, video_threads, max_comments, comments, next_page_token,
               requests, ex_ret>>
vars == <<cleanVars, procVars, sentVars, loadVars, topicVars, ytVars, tmVars,
         mainVars, readVars, kpiVars, exVars>>

\* the stages run one at a time: a step of one leaves the others alone
OnlyClean == UNCHANGED <<procVars, sentVars, loadVars, topicVars, ytVars,
                         tmVars, mainVars, readVars, kpiVars, exVars>>
OnlyProc  == UNCHANGED <<cleanVars, sentVars, loadVars, topicVars, ytVars,
                         tmVars, mainVars, readVars, kpiVars, exVars>>
OnlySent  == UNCHANGED <<cleanVars, mongo_up, mongo_docs, json_posts,
                         processed_csv, proc_ret, loadVars, topicVars, ytVars,
                         tmVars, mainVars, readVars, kpiVars, exVars>>
OnlyLoad  == UNCHANGED <<cleanVars, procVars, sentVars, topicVars, ytVars,
                         tmVars, mainVars, readVars, kpiVars, exVars>>
OnlyTopic == UNCHANGED <<cleanVars, procVars, sentVars, loadVars, ytVars,
                         tmVars, mainVars, readVars, kpiVars, exVars>>
\* process_youtube_data writes the file the loader reads
OnlyYoutube == UNCHANGED <<cleanVars, procVars, sentVars, youtube_processed,
                           sentiment_csv, final_df, load_ret, loads,
                           table_before, topicVars, tmVars, mainVars,
                           readVars, kpiVars, exVars>>
\* TopicModeler.run reads the processed file
OnlyTopicRun == UNCHANGED <<cleanVars, procVars, sentVars, loadVars,
                            topicVars, ytVars, mainVars, readVars, kpiVars,
                            exVars>>

(***************************************************************************)
(* Python values                                                           *)
(***************************************************************************)
None   == [kind |-> "none"]
NaN    == [kind |-> "nan"]
Unset  == [kind |-> "unset"]
PyStr(s) == [kind |-> "str", val |-> s]
PyInt(n) == [kind |-> "int", val |-> n]
\* a float, as an exact integer in the unit of its column
PyFloat(n) == [kind |-> "float", val |-> n]
\* a string the code never looks into (a label), kept whole
PyName(s) == [kind |-> "str", name |-> s]
PyList(l) == [kind |-> "list", val |-> l]
PyTrue  == [kind |-> "bool", val |-> TRUE]
PyFalse == [kind |-> "bool", val |-> FALSE]
\* a data frame: its rows, in order; a column the frame does not have is
\* Absent in every row
Frame(rows) == [kind |-> "frame", rows |-> rows]
Absent == [kind |-> "absent"]
Raised(e) == [kind |-> "raised", exc |-> e]

IsStr(v) == v.kind = "str"

\* str.lower() on the letters the model's inputs are written in
Lower(c) ==
    CASE c = "A" -> "a"
      [] c = "C" -> "c"
      [] c = "H" -> "h"
      [] c = "I" -> "i"
      [] c = "O" -> "o"
      [] c = "P" -> "p"
      [] c = "R" -> "r"
      [] c = "T" -> "t"
      [] c = "W" -> "w"
      [] OTHER   -> c

LowerSeq(s) == [i \in 1..Len(s) |-> Lower(s[i])]

\* \w, \s and the punctuation clean_text keeps, on the same letters
WordChars  == {"a", "h", "p", "t", "w", "x", "A", "H", "P", "R", "T", "W", "_", "1"}
SpaceChars == {" ", "\t"}
KeptPunct  == {".", ",", "!", "?", "-"}

HasAt(s, i, lit) ==
    /\ i + Len(lit) - 1 <= Len(s)
    /\ \A k \in 1..Len(lit) : s[i + k - 1] = lit[k]

\* the length of the longest run of \S starting at index i
RECURSIVE NonSpaceRun(_, _)
NonSpaceRun(s, i) ==
    IF i > Len(s) \/ s[i] \in SpaceChars THEN 0 ELSE 1 + NonSpaceRun(s, i + 1)

(***************************************************************************)
(* DataProcessor.clean_text                                                *)
(***************************************************************************)
\* re: http\S+|www.\S+ tried at index i; the index of the last character
\* matched, or 0.  \S+ is greedy, and "." takes any character.
UrlMatchEnd(s, i) ==
    IF HasAt(s, i, <<"h", "t", "t", "p">>) /\ NonSpaceRun(s, i + 4) >= 1
    THEN i + 3 + NonSpaceRun(s, i + 4)
    ELSE IF HasAt(s, i, <<"w", "w", "w">>) /\ i + 3 <= Len(s)
            /\ NonSpaceRun(s, i + 4) >= 1
         THEN i + 3 + NonSpaceRun(s, i + 4)
         ELSE 0

\* re.sub(r'http\S+|www.\S+', '', text): leftmost matches, left to right
RECURSIVE RemoveUrlsFrom(_, _)
RemoveUrlsFrom(s, i) ==
    IF i > Len(s) THEN <<>>
    ELSE LET e == UrlMatchEnd(s, i)
         IN  IF e > 0 THEN RemoveUrlsFrom(s, e + 1)
             ELSE <<s[i]>> \o RemoveUrlsFrom(s, i + 1)

RemoveUrls(s) == RemoveUrlsFrom(s, 1)

\* re: \[.*?\]\(.*?\) tried at index i; the index of the closing ")", or 0.
\* Both .*? are lazy: the first "](" after the "[", then the first ")".
MarkdownMatchEnd(s, i) ==
    IF i > Len(s) \/ s[i] # "[" THEN 0
    ELSE LET js == {j \in (i + 1)..(Len(s) - 1) : s[j] = "]" /\ s[j + 1] = "("}
         IN  IF js = {} THEN 0
             ELSE LET j  == CHOOSE m \in js : \A n \in js : m <= n
                      ks == {k \in (j + 2)..Len(s) : s[k] = ")"}
                  IN  IF ks = {} THEN 0
                      ELSE CHOOSE m \in ks : \A n \in ks : m <= n

\* re.sub(r'\[.*?\]\(.*?\)', '', text)
RECURSIVE RemoveMarkdownFrom(_, _)
RemoveMarkdownFrom(s, i) ==
    IF i > Len(s) THEN <<>>
    ELSE LET e == MarkdownMatchEnd(s, i)
         IN  IF e > 0 THEN RemoveMarkdownFrom(s, e + 1)
             ELSE <<s[i]>> \o RemoveMarkdownFrom(s, i + 1)

RemoveMarkdown(s) == RemoveMarkdownFrom(s, 1)

\* re.sub(r'[^\w\s.,!?-]', '', text)
RemoveSpecial(s) ==
    SelectSeq(s, LAMBDA c : c \in WordChars \cup SpaceChars \cup KeptPunct)

\* re.sub(r'\s+', ' ', text): every run of whitespace becomes one space
RECURSIVE CollapseFrom(_, _)
CollapseFrom(s, i) ==
    IF i > Len(s) THEN <<>>
    ELSE IF s[i] \in SpaceChars
         THEN IF i > 1 /\ s[i - 1] \in SpaceChars
              THEN CollapseFrom(s, i + 1)
              ELSE <<" ">> \o CollapseFrom(s, i + 1)
         ELSE <<s[i]>> \o CollapseFrom(s, i + 1)

\* str.strip()
RECURSIVE Strip(_)
Strip(s) ==
    IF s = <<>> THEN s
    ELSE IF s[1] \in SpaceChars THEN Strip(Tail(s))
    ELSE IF s[Len(s)] \in SpaceChars THEN Strip(SubSeq(s, 1, Len(s) - 1))
    ELSE s

CollapseWhitespace(s) == Strip(CollapseFrom(s, 1))

\* clean_text without its isinstance guard: re.sub raises on a non-string
clean_text_unguarded(t) ==
    IF ~IsStr(t) THEN Raised("TypeError")
    ELSE PyStr(LowerSeq(CollapseWhitespace(RemoveSpecial(
               RemoveMarkdown(RemoveUrls(t.val))))))

clean_text(t) ==
    IF ~IsStr(t) THEN PyStr(<<>>)
    ELSE PyStr(LowerSeq(CollapseWhitespace(RemoveSpecial(
               RemoveMarkdown(RemoveUrls(t.val))))))

(***************************************************************************)
(* Bounds and inputs of the clean_text harness                             *)
(***************************************************************************)
MaxTokens == 4

\* the pieces input strings are built from: the literals of the patterns,
\* an upper-case letter, a word character, whitespace, a disallowed
\* character and the markdown brackets
Tokens ==
    { <<"h", "t", "t", "p">>, <<"w", "w", "w">>, <<"W">>, <<"a">>, <<" ">>,
      <<"*">>, <<"[">>, <<"]", "(">>, <<")">> }

RECURSIVE TokenStrings(_)
TokenStrings(n) ==
    IF n = 0 THEN {<<>>}
    ELSE LET shorter == TokenStrings(n - 1)
         IN  shorter \cup {s \o t : s \in shorter, t \in Tokens}

NonStrings == {None, NaN, PyInt(0), PyInt(7)}

CleanInputs == NonStrings \cup {PyStr(s) : s \in TokenStrings(MaxTokens)}

IdleClean ==
    /\ text = None
    /\ cleaned = Unset
    /\ recleaned = Unset

(***************************************************************************)
(* DataProcessor                                                           *)
(***************************************************************************)
\* Series.fillna('')
fillna(v) == IF v.kind \in {"nan", "none"} THEN PyStr(<<>>) ELSE v

\* float division of two int64 columns: pandas raises nothing on a zero
\* divisor, the quotient is inf, -inf or nan
Divide(n, d) ==
    IF d # 0 THEN [kind |-> "ratio", num |-> n, den |-> d]
    ELSE IF n = 0 THEN NaN
    ELSE [kind |-> "inf", sign |-> IF n > 0 THEN 1 ELSE -1]

\* ' '.join(parts)
RECURSIVE Join(_)
Join(parts) ==
    IF parts = <<>> THEN <<>>
    ELSE IF Len(parts) = 1 THEN parts[1]
    ELSE parts[1] \o <<" ">> \o Join(Tail(parts))

\* pd.to_datetime on one value: it has the fields of a timestamp, or fails
Parseable(ts) == ts.kind = "iso"

\* Series.dt.day_name()
DayName(dow) ==
    <<"Monday", "Tuesday", "Wednesday", "Thursday", "Friday", "Saturday",
      "Sunday">>[dow + 1]

\* the temporal features of one row
WithTemporal(r) ==
    [r EXCEPT !.hour = PyInt(r.created_utc.hour),
              !.day_of_week = PyInt(r.created_utc.dow),
              !.day_name = PyName(DayName(r.created_utc.dow)),
              !.month = PyInt(r.created_utc.month)]

\* temporal features row by row: a row that parses gets them whatever the
\* other rows hold
extract_temporal_features_per_row(df) ==
    [i \in 1..Len(df) |->
        IF Parseable(df[i].created_utc) THEN WithTemporal(df[i]) ELSE df[i]]

\* extract_temporal_features: one unparseable value fails the conversion of
\* the column, the exception is swallowed and no column is added
extract_temporal_features(df) ==
    IF \A i \in 1..Len(df) : Parseable(df[i].created_utc)
    THEN [i \in 1..Len(df) |-> WithTemporal(df[i])]
    ELSE df

\* the weights of engagement_score, in tenths
ScoreWeight   == 7
CommentWeight == 3

comment_ratio(r) == Divide(r.num_comments, r.score + 1)

\* the lengths taken from the cleaned columns instead of the raw ones
calculate_engagement_metrics_clean_lengths(df) ==
    [i \in 1..Len(df) |->
        [df[i] EXCEPT
            !.comment_ratio = comment_ratio(df[i]),
            !.engagement_score = PyFloat(ScoreWeight * df[i].score
                                         + CommentWeight * df[i].num_comments),
            !.title_length = PyInt(Len(df[i].title_clean.val)),
            !.body_length = PyInt(Len(df[i].body_clean.val)),
            !.total_text_length =
                PyInt(Len(df[i].title_clean.val) + Len(df[i].body_clean.val))]]

\* lines 109-118
calculate_engagement_metrics(df) ==
    [i \in 1..Len(df) |->
        [df[i] EXCEPT
            !.comment_ratio = comment_ratio(df[i]),
            !.engagement_score = PyFloat(ScoreWeight * df[i].score
                                         + CommentWeight * df[i].num_comments),
            !.title_length = PyInt(Len(df[i].title.val)),
            !.body_length = PyInt(Len(df[i].body.val)),
            !.total_text_length =
                PyInt(Len(df[i].title.val) + Len(df[i].body.val))]]

\* process_comments: a list of comment bodies, or a value that is no list
process_comments(df) ==
    [i \in 1..Len(df) |->
        [df[i] EXCEPT
            !.num_comments_extracted =
                PyInt(IF df[i].comments.kind = "list"
                      THEN Len(df[i].comments.val) ELSE 0),
            !.all_comments_text =
                IF df[i].comments.kind = "list"
                THEN PyStr(Join(df[i].comments.val)) ELSE PyStr(<<>>)]]

\* DataFrame.drop_duplicates(subset=['post_id'], keep='last')
RECURSIVE drop_duplicates_keep_last(_)
drop_duplicates_keep_last(df) ==
    IF df = <<>> THEN <<>>
    ELSE IF \E j \in 2..Len(df) : df[j].post_id = df[1].post_id
         THEN drop_duplicates_keep_last(Tail(df))
         ELSE <<df[1]>> \o drop_duplicates_keep_last(Tail(df))

\* DataFrame.drop_duplicates(subset=['post_id'], keep='first'): one pass in
\* row order that keeps a row when its key has not been seen
RECURSIVE DropDuplicatesFrom(_, _, _)
DropDuplicatesFrom(df, i, seen) ==
    IF i > Len(df) THEN <<>>
    ELSE IF df[i].post_id \in seen
         THEN DropDuplicatesFrom(df, i + 1, seen)
         ELSE <<df[i]>> \o DropDuplicatesFrom(df, i + 1, seen \cup {df[i].post_id})

drop_duplicates(df) == DropDuplicatesFrom(df, 1, {})

\* lines 164-173 of process(), for one row: the missing values filled, the
\* clean columns and full_text; the later columns not yet there
WithColumns(r) ==
    [post_id |-> r.post_id, title |-> fillna(r.title), body |-> fillna(r.body),
     score |-> r.score, num_comments |-> r.num_comments,
     created_utc |-> r.created_utc, comments |-> r.comments,
     title_clean |-> clean_text(fillna(r.title)),
     body_clean |-> clean_text(fillna(r.body)),
     full_text |-> PyStr(clean_text(fillna(r.title)).val \o <<" ">>
                         \o clean_text(fillna(r.body)).val),
     hour |-> Absent, day_of_week |-> Absent, day_name |-> Absent,
     month |-> Absent,
     comment_ratio |-> Absent, engagement_score |-> Absent,
     title_length |-> Absent, body_length |-> Absent,
     total_text_length |-> Absent,
     num_comments_extracted |-> Absent, all_comments_text |-> Absent]

\* lines 163-183 of process(): fill, clean, features, then the deduplication
Transform(raw) ==
    drop_duplicates(process_comments(calculate_engagement_metrics(
        extract_temporal_features([i \in 1..Len(raw) |-> WithColumns(raw[i])]))))

\* a load that also falls back to the JSON files when the collection gives
\* no data
LoadedOrFallback(find_ok) ==
    IF mongo_up /\ find_ok /\ mongo_docs # <<>> THEN Frame(mongo_docs)
    ELSE json_posts

\* what process() loads: the collection when MongoDB answers (None when the
\* find fails), the JSON files otherwise
Loaded(find_ok) ==
    IF mongo_up THEN (IF find_ok THEN Frame(mongo_docs) ELSE None)
    ELSE json_posts

HasData(df) == df # None /\ df.rows # <<>>

\* process(): nothing to process, None is returned
ProcessNoData ==
    /\ proc_ret = Unset
    /\ \E find_ok \in BOOLEAN : ~HasData(Loaded(find_ok))
    /\ proc_ret' = None
    /\ UNCHANGED <<mongo_up, mongo_docs, json_posts, processed_csv>>
    /\ OnlyProc

\* process(): the frame is transformed, written and returned
ProcessOk ==
    /\ proc_ret = Unset
    /\ HasData(Loaded(TRUE))
    /\ processed_csv' = Frame(Transform(Loaded(TRUE).rows))
    /\ proc_ret' = Frame(Transform(Loaded(TRUE).rows))
    /\ UNCHANGED <<mongo_up, mongo_docs, json_posts>>
    /\ OnlyProc

\* process(): to_csv raises, and the exception leaves process()
ProcessWriteFails ==
    /\ proc_ret = Unset
    /\ HasData(Loaded(TRUE))
    /\ proc_ret' = Raised("OSError")
    /\ UNCHANGED <<mongo_up, mongo_docs, json_posts, processed_csv>>
    /\ OnlyProc

IdleProc ==
    /\ mongo_up = FALSE
    /\ mongo_docs = <<>>
    /\ json_posts = None
    /\ processed_csv = None
    /\ proc_ret = Unset

(***************************************************************************)
(* SentimentAnalyzer.  A text of this stage is a prefix of one of a few    *)
(* documents: the code only takes its length, slices it from the start     *)
(* and passes it on, so a text is the pair (document, length).             *)
(***************************************************************************)
EmptyText == [kind |-> "str", doc |-> "", len |-> 0]
Prefix(d, n) == IF n = 0 THEN EmptyText ELSE [kind |-> "str", doc |-> d, len |-> n]

\* Series.fillna('') on a column of texts
fillna_text(v) == IF v.kind \in {"nan", "none"} THEN EmptyText ELSE v

\* ML_CONFIG['max_length']
max_length == 512

\* preprocess_text without the slice to max_length
preprocess_text_untruncated(t) == IF ~IsStr(t) THEN EmptyText ELSE t

\* preprocess_text
preprocess_text(t) ==
    IF ~IsStr(t) THEN EmptyText
    ELSE IF t.len > max_length THEN Prefix(t.doc, max_length)
    ELSE t

Min(a, b) == IF a < b THEN a ELSE b

\* a slice that starts one text early: texts[max(i - 1, 0):i + batch_size]
BatchAtOverlapping(ts, i, b) ==
    SubSeq(ts, IF i = 0 THEN 1 ELSE i, Min(i + b, Len(ts)))

\* texts[i:i + batch_size], i counted from 0
BatchAt(ts, i, b) == SubSeq(ts, i + 1, Min(i + b, Len(ts)))

\* [self.preprocess_text(text) for text in batch]
PreprocessBatch(batch) == [k \in 1..Len(batch) |-> preprocess_text(batch[k])]

\* results.extend(predictions), written the wrong way round
extend_front(res, preds) == preds \o res

\* results.extend(predictions)
extend(res, preds) == res \o preds

\* the threshold of _categorize_sentiment, in hundredths
ConfidenceThreshold == 60

\* _categorize_sentiment without the confidence gate
categorize_ungated(label, score) == label

\* _categorize_sentiment comparing with <= instead of <
categorize_at_or_below(label, score) ==
    IF score <= ConfidenceThreshold THEN "NEUTRAL" ELSE label

_categorize_sentiment(label, score) ==
    IF score < ConfidenceThreshold THEN "NEUTRAL" ELSE label

\* label_map.get(x, x)
label_map(x) ==
    CASE x = "POSITIVE" -> "POSITIVE"
      [] x = "NEGATIVE" -> "NEGATIVE"
      [] x = "NEUTRAL"  -> "NEUTRAL"
      [] OTHER          -> x

\* process_results on the rows of df: a list of another length than the
\* frame (or None) makes the first column assignment raise, and the except
\* clause returns the frame as it is
process_results(df, res) ==
    IF res = None \/ Len(res.val) # Len(df) THEN df
    ELSE [i \in 1..Len(df) |->
            [df[i] EXCEPT
                !.sentiment_label = PyName(label_map(res.val[i].label)),
                !.sentiment_score = PyFloat(res.val[i].score),
                !.sentiment_category =
                    PyName(_categorize_sentiment(label_map(res.val[i].label),
                                                 res.val[i].score))]]

\* analyze() going on after a failed classification
after_sentiment_ignoring_none(res) == "process"

\* lines 212-213 of analyze(): a None result ends the run
after_sentiment(res) == IF res = None THEN "abort" ELSE "process"

\* what the classifier can answer for one string: label, confidence
Preds ==
    { [label |-> "NEGATIVE", score |-> 40],
      [label |-> "POSITIVE", score |-> 60],
      [label |-> "NEGATIVE", score |-> 90] }

sentRest == <<batch_size, results_file>>

\* load_model(): the pipeline is built
LoadModelOk ==
    /\ sa_pc = "load_model"
    /\ sa_pc' = "load_data"
    /\ UNCHANGED <<sa_df, texts, batch_i, results, calls, sa_ret, sentRest>>
    /\ OnlySent

\* load_model() returns False, analyze() returns False
LoadModelFails ==
    /\ sa_pc = "load_model"
    /\ sa_pc' = "done"
    /\ sa_ret' = PyFalse
    /\ UNCHANGED <<sa_df, texts, batch_i, results, calls, sentRest>>
    /\ OnlySent

\* load_data(): the processed file is read
LoadDataOk ==
    /\ sa_pc = "load_data"
    /\ processed_csv # None
    /\ sa_df' = processed_csv
    /\ sa_pc' = "prepare"
    /\ UNCHANGED <<texts, batch_i, results, calls, sa_ret, sentRest>>
    /\ OnlySent

\* load_data() returns None (no file, or read_csv raises)
LoadDataFails ==
    /\ sa_pc = "load_data"
    /\ sa_pc' = "done"
    /\ sa_ret' = PyFalse
    /\ UNCHANGED <<sa_df, texts, batch_i, results, calls, sentRest>>
    /\ OnlySent

\* texts = df['full_text'].fillna('').tolist(), and the loop is entered
PrepareTexts ==
    /\ sa_pc = "prepare"
    /\ texts' = [i \in 1..Len(sa_df.rows) |-> fillna_text(sa_df.rows[i].full_text)]
    /\ results' = PyList(<<>>)
    /\ batch_i' = 0
    /\ sa_pc' = "batch"
    /\ UNCHANGED <<sa_df, calls, sa_ret, sentRest>>
    /\ OnlySent

\* one iteration: the classifier answers one prediction per string
ClassifyBatch ==
    /\ sa_pc = "batch"
    /\ batch_i < Len(texts)
    /\ LET batch_processed == PreprocessBatch(BatchAt(texts, batch_i, batch_size))
       IN  \E predictions \in [1..Len(batch_processed) -> Preds] :
              /\ calls' = Append(calls, [batch |-> batch_processed,
                                         status |-> "ok", out |-> predictions])
              /\ results' = PyList(extend(results.val, predictions))
    /\ batch_i' = batch_i + batch_size
    /\ UNCHANGED <<sa_pc, sa_df, texts, sa_ret, sentRest>>
    /\ OnlySent

\* one iteration: the classifier answers one prediction too few
ClassifyBatchShort ==
    /\ sa_pc = "batch"
    /\ batch_i < Len(texts)
    /\ LET batch_processed == PreprocessBatch(BatchAt(texts, batch_i, batch_size))
       IN  \E predictions \in [1..(Len(batch_processed) - 1) -> Preds] :
              /\ calls' = Append(calls, [batch |-> batch_processed,
                                         status |-> "ok", out |-> predictions])
              /\ results' = PyList(extend(results.val, predictions))
    /\ batch_i' = batch_i + batch_size
    /\ UNCHANGED <<sa_pc, sa_df, texts, sa_ret, sentRest>>
    /\ OnlySent

\* one iteration: the classifier raises, analyze_sentiment returns None
ClassifyBatchRaises ==
    /\ sa_pc = "batch"
    /\ batch_i < Len(texts)
    /\ LET batch_processed == PreprocessBatch(BatchAt(texts, batch_i, batch_size))
       IN  calls' = Append(calls, [batch |-> batch_processed,
                                   status |-> "raised", out |-> <<>>])
    /\ results' = None
    /\ sa_pc' = "returned"
    /\ UNCHANGED <<sa_df, texts, batch_i, sa_ret, sentRest>>
    /\ OnlySent

\* the loop is over, analyze_sentiment returns results
ReturnResults ==
    /\ sa_pc = "batch"
    /\ batch_i >= Len(texts)
    /\ sa_pc' = "returned"
    /\ UNCHANGED <<sa_df, texts, batch_i, results, calls, sa_ret, sentRest>>
    /\ OnlySent

\* analyze(): sentiment_results is None, return False
AbortRun ==
    /\ sa_pc = "returned"
    /\ after_sentiment(results) = "abort"
    /\ sa_pc' = "done"
    /\ sa_ret' = PyFalse
    /\ UNCHANGED <<sa_df, texts, batch_i, results, calls, sentRest>>
    /\ OnlySent

\* analyze(): df_with_sentiment = process_results(df, sentiment_results)
ProcessResults ==
    /\ sa_pc = "returned"
    /\ after_sentiment(results) = "process"
    /\ sa_df' = Frame(process_results(sa_df.rows, results))
    /\ sa_pc' = "save"
    /\ UNCHANGED <<texts, batch_i, results, calls, sa_ret, sentRest>>
    /\ OnlySent

\* save_results(): the file is written; analyze() returns True
SaveResultsOk ==
    /\ sa_pc = "save"
    /\ results_file' = sa_df
    /\ sa_pc' = "done"
    /\ sa_ret' = PyTrue
    /\ UNCHANGED <<batch_size, sa_df, texts, batch_i, results, calls>>
    /\ OnlySent

\* save_results(): to_csv raises and False is returned, which analyze()
\* does not look at; analyze() returns True
SaveResultsFails ==
    /\ sa_pc = "save"
    /\ sa_pc' = "done"
    /\ sa_ret' = PyTrue
    /\ UNCHANGED <<sa_df, texts, batch_i, results, calls, sentRest>>
    /\ OnlySent

IdleSent ==
    /\ sa_pc = "idle"
    /\ batch_size = 0
    /\ sa_df = Unset
    /\ texts = <<>>
    /\ batch_i = 0
    /\ results = PyList(<<>>)
    /\ calls = <<>>
    /\ results_file = None
    /\ sa_ret = Unset

(***************************************************************************)
(* SQLiteLoader.  The sink table is None (no such table) or a record of    *)
(* whether its id column is declared PRIMARY KEY and of its rows.          *)
(***************************************************************************)
Table(pk, rows) == [kind |-> "table", primary_key |-> pk, rows |-> rows]

\* create_schema: CREATE TABLE IF NOT EXISTS youtube_processed (id TEXT
\* PRIMARY KEY, ...)
create_schema(table) == IF table = None THEN Table(TRUE, <<>>) ELSE table

\* the sentiment rows whose id is that of processed row r, in file order
Matches(r, sentiment_rows) ==
    SelectSeq(sentiment_rows, LAMBDA srow : srow.id = r.id)

\* row r of the processed frame with the two sentiment columns
WithSentiment(r, label, score) ==
    ("sentiment_label" :> label) @@ ("sentiment_score" :> score) @@ r

\* a merge that labels a row without a match NEUTRAL
MergeRowNeutral(r, sentiment_rows) ==
    LET m == Matches(r, sentiment_rows)
    IN  IF m = <<>>
        THEN <<WithSentiment(r, PyName("NEUTRAL"), NaN)>>
        ELSE [k \in 1..Len(m) |->
                WithSentiment(r, m[k].sentiment_label, m[k].sentiment_score)]

\* DataFrame.merge(..., on='id', how='left') for one left row: a row for
\* every match, or one row with NaN in the right-hand columns
MergeRow(r, sentiment_rows) ==
    LET m == Matches(r, sentiment_rows)
    IN  IF m = <<>>
        THEN <<WithSentiment(r, NaN, NaN)>>
        ELSE [k \in 1..Len(m) |->
                WithSentiment(r, m[k].sentiment_label, m[k].sentiment_score)]

RECURSIVE LeftMerge(_, _)
LeftMerge(processed_rows, sentiment_rows) ==
    IF processed_rows = <<>> THEN <<>>
    ELSE MergeRow(processed_rows[1], sentiment_rows)
         \o LeftMerge(Tail(processed_rows), sentiment_rows)

\* merge_data
merge_data(processed_df, sentiment_df) ==
    IF sentiment_df # None
    THEN Frame(LeftMerge(processed_df.rows, sentiment_df.rows))
    ELSE Frame([i \in 1..Len(processed_df.rows) |->
                  WithSentiment(processed_df.rows[i], None, None)])

\* the columns insert_to_database selects
columns_to_insert ==
    {"id", "video_id", "video_title", "video_channel", "brand", "text",
     "author", "timestamp", "score", "num_comments", "sentiment_label",
     "sentiment_score", "engagement_score", "source", "url", "extracted_date"}

\* pd.Timestamp.now().date()
Today == PyName("today")

\* df_insert, for one row: timestamp copied from created_utc when the frame
\* has that column, and extracted_date
InsertRow(r) ==
    ("extracted_date" :> Today)
        @@ (IF "created_utc" \in DOMAIN r
            THEN ("timestamp" :> r.created_utc) @@ r ELSE r)

\* every column of the frame, whether the schema has it or not
all_columns(cols) == cols

\* [col for col in columns_to_insert if col in df_insert.columns]
available_columns(cols) == columns_to_insert \cap cols

\* df_final = df_insert[available_columns]
df_final(df) ==
    Frame([i \in 1..Len(df.rows) |->
             LET r == InsertRow(df.rows[i])
             IN  [c \in available_columns(DOMAIN r) |-> r[c]]])

\* DataFrame.to_sql(..., if_exists='append'): the rows are added to the
\* table that is there
to_sql_append(table, df) ==
    IF table = None THEN Table(FALSE, df.rows)
    ELSE Table(table.primary_key, table.rows \o df.rows)

\* DataFrame.to_sql('youtube_processed', conn, if_exists='replace'): the
\* table is dropped and created again from the frame's columns, with no
\* constraint, and the frame's rows are inserted
to_sql_replace(table, df) == Table(FALSE, df.rows)

\* load(): connect() fails, nothing else is done
LoadConnectFails ==
    /\ load_ret' = PyFalse
    /\ final_df' = Unset
    /\ table_before' = youtube_processed
    /\ UNCHANGED <<youtube_processed, processed_json, sentiment_csv>>

\* load(): the schema is created, the processed file cannot be read
LoadNoProcessed(pj, sc) ==
    /\ pj = None
    /\ processed_json' = pj
    /\ sentiment_csv' = sc
    /\ youtube_processed' = create_schema(youtube_processed)
    /\ table_before' = youtube_processed
    /\ final_df' = Unset
    /\ load_ret' = PyFalse

\* load(): schema, both files, merge, insert, verify; returns True
LoadInserted(pj, sc) ==
    /\ pj # None
    /\ processed_json' = pj
    /\ sentiment_csv' = sc
    /\ LET df == df_final(merge_data(pj, sc))
       IN  /\ final_df' = df
           /\ youtube_processed' =
                  to_sql_replace(create_schema(youtube_processed), df)
    /\ table_before' = youtube_processed
    /\ load_ret' = PyTrue

\* load(): to_sql raises before the table is dropped (the table stays) or
\* while the rows are inserted (the new, empty table stays); returns False
LoadInsertFails(pj, sc) ==
    /\ pj # None
    /\ processed_json' = pj
    /\ sentiment_csv' = sc
    /\ final_df' = df_final(merge_data(pj, sc))
    /\ \E dropped \in BOOLEAN :
          youtube_processed' =
              IF dropped THEN Table(FALSE, <<>>)
              ELSE create_schema(youtube_processed)
    /\ table_before' = youtube_processed
    /\ load_ret' = PyFalse

\* the columns of a frame that has rows
Columns(df) == IF df.rows = <<>> THEN {} ELSE DOMAIN df.rows[1]

\* merge_data can merge: there is no sentiment frame to merge on 'id', or
\* the processed frame has the column
CanMerge(pj, sc) == sc = None \/ "id" \in Columns(pj)

\* load(): processed_df.merge(..., on='id') raises KeyError, which neither
\* merge_data nor load() catches
LoadMergeRaises(pj, sc) ==
    /\ pj # None /\ ~CanMerge(pj, sc)
    /\ processed_json' = pj
    /\ sentiment_csv' = sc
    /\ youtube_processed' = create_schema(youtube_processed)
    /\ table_before' = youtube_processed
    /\ final_df' = Unset
    /\ load_ret' = Raised("KeyError")

(***************************************************************************)
(* load() statement by statement, next to a reader on a connection of its  *)
(* own.  DataFrame.to_sql(if_exists='replace') on a sqlite3 connection     *)
(* issues DROP TABLE, then CREATE TABLE, then the INSERTs; the sqlite3      *)
(* module opens a transaction before an INSERT only, so the DROP and the    *)
(* CREATE are committed as they are executed and the rows are committed     *)
(* together at the end.                                                    *)
(***************************************************************************)
OnlySink == UNCHANGED <<cleanVars, procVars, sentVars, topicVars, ytVars,
                        tmVars, mainVars, kpiVars, exVars>>

\* a DROP TABLE that stays invisible until the load commits
drop_table_deferred(table) == table

\* DROP TABLE youtube_processed, committed at once
drop_table(table) == None

\* CREATE TABLE youtube_processed from the frame's columns, no constraint
create_table(table) == Table(FALSE, <<>>)

\* the loaders of app.py: SELECT * FROM the table into a frame, an empty
\* frame when the query raises
load_table(table) == IF table = None THEN <<>> ELSE table.rows

\* load() up to the DROP TABLE of to_sql: connect, create_schema, both
\* files, merge_data, df_final
ReplaceDrops(pj, sc) ==
    /\ load_pc = "idle"
    /\ pj # None
    /\ processed_json' = pj
    /\ sentiment_csv' = sc
    /\ final_df' = df_final(merge_data(pj, sc))
    /\ table_before' = youtube_processed
    /\ youtube_processed' = drop_table(create_schema(youtube_processed))
    /\ load_pc' = "dropped"
    /\ UNCHANGED <<load_ret, loads, reader_saw>>
    /\ OnlySink

\* to_sql: the table is created again, empty
ReplaceCreates ==
    /\ load_pc = "dropped"
    /\ youtube_processed' = create_table(youtube_processed)
    /\ load_pc' = "created"
    /\ UNCHANGED <<processed_json, sentiment_csv, final_df, table_before,
                   load_ret, loads, reader_saw>>
    /\ OnlySink

\* to_sql: the rows are inserted and committed; load() returns True
ReplaceInserts ==
    /\ load_pc = "created"
    /\ youtube_processed' = Table(FALSE, final_df.rows)
    /\ load_pc' = "done"
    /\ load_ret' = PyTrue
    /\ loads' = loads + 1
    /\ UNCHANGED <<processed_json, sentiment_csv, final_df, table_before,
                   reader_saw>>
    /\ OnlySink

\* to_sql: an INSERT raises, the rows are rolled back; load() returns False
ReplaceInsertRaises ==
    /\ load_pc = "created"
    /\ load_pc' = "done"
    /\ load_ret' = PyFalse
    /\ loads' = loads + 1
    /\ UNCHANGED <<youtube_processed, processed_json, sentiment_csv, final_df,
                   table_before, reader_saw>>
    /\ OnlySink

\* the reader runs its query once, at any moment
ReaderLoads ==
    /\ reader_saw = Unset
    /\ reader_saw' = [kind |-> "seen", at |-> load_pc,
                rows |-> load_table(youtube_processed)]
    /\ UNCHANGED <<loadVars, load_pc>>
    /\ OnlySink

IdleRead ==
    /\ load_pc = "idle"
    /\ reader_saw = Unset

IdleLoad ==
    /\ youtube_processed = None
    /\ processed_json = None
    /\ sentiment_csv = None
    /\ final_df = Unset
    /\ load_ret = Unset
    /\ loads = 0
    /\ table_before = None

(***************************************************************************)
(* TopicModeler._assign_topic_label.  Words are sequences of characters,   *)
(* "word in words_str" is substring containment.                           *)
(***************************************************************************)
Contains(str, word) ==
    \E i \in 1..(Len(str) - Len(word) + 1) : HasAt(str, i, word)

\* any(word in words_str for word in words)
AnyIn(words, str) == \E word \in words : Contains(str, word)

\* the keyword lists of lines 118-126
PricingWords ==
    { <<"p", "r", "i", "c", "e">>,
      <<"c", "o", "s", "t">>,
      <<"b", "u", "d", "g", "e", "t">>,
      <<"p", "r", "i", "c", "i", "n", "g">> }

FeatureWords ==
    { <<"f", "e", "a", "t", "u", "r", "e">>,
      <<"t", "o", "o", "l">>,
      <<"p", "l", "a", "t", "f", "o", "r", "m">>,
      <<"s", "o", "f", "t", "w", "a", "r", "e">> }

IntegrationWords ==
    { <<"i", "n", "t", "e", "g", "r", "a", "t", "i", "o", "n">>,
      <<"a", "p", "i">>,
      <<"c", "o", "n", "n", "e", "c", "t">>,
      <<"d", "a", "t", "a">> }

CompetitiveWords ==
    { <<"c", "o", "m", "p", "e", "t", "i", "t", "o", "r">>,
      <<"a", "l", "t", "e", "r", "n", "a", "t", "i", "v", "e">>,
      <<"v", "s">>,
      <<"c", "o", "m", "p", "a", "r", "i", "s", "o", "n">> }

AnalyticsWords ==
    { <<"r", "o", "i">>,
      <<"a", "n", "a", "l", "y", "t", "i", "c", "s">>,
      <<"m", "e", "t", "r", "i", "c", "s">>,
      <<"p", "e", "r", "f", "o", "r", "m", "a", "n", "c", "e">> }

\* the checks made with the analytics keywords first
assign_topic_label_roi_first(words) ==
    LET words_str == LowerSeq(Join(words))
    IN  IF AnyIn(AnalyticsWords, words_str) THEN "Analytics & ROI"
        ELSE IF AnyIn(PricingWords, words_str) THEN "Pricing & Budget"
        ELSE IF AnyIn(FeatureWords, words_str) THEN "Features & Tools"
        ELSE IF AnyIn(IntegrationWords, words_str) THEN "Integration & Data"
        ELSE IF AnyIn(CompetitiveWords, words_str) THEN "Competitive Analysis"
        ELSE "General Discussion"

_assign_topic_label(words) ==
    LET words_str == LowerSeq(Join(words))
    IN  IF AnyIn(PricingWords, words_str) THEN "Pricing & Budget"
        ELSE IF AnyIn(FeatureWords, words_str) THEN "Features & Tools"
        ELSE IF AnyIn(IntegrationWords, words_str) THEN "Integration & Data"
        ELSE IF AnyIn(CompetitiveWords, words_str) THEN "Competitive Analysis"
        ELSE IF AnyIn(AnalyticsWords, words_str) THEN "Analytics & ROI"
        ELSE "General Discussion"

\* extract_topics, for one topic: the label of its top words
AssignTopicLabel ==
    /\ topic_label = Unset
    /\ topic_label' = PyName(_assign_topic_label(top_words))
    /\ UNCHANGED top_words
    /\ OnlyTopic

IdleTopic ==
    /\ top_words = <<>>
    /\ topic_label = Unset

\* calls of run() on one TopicModeler, and the rows of the file it reads
MaxModelerRuns == 2
MaxAgainRows == 1

\* TopicModeler(n_topics=5)
n_topics == 5
\* prepare_texts keeps the texts with len(t) > 20
MinTopicLength == 20

\* prepare_texts: full_text with NaN as '', the short texts filtered out
prepare_texts(df) ==
    SelectSeq([i \in 1..Len(df) |-> fillna_text(df[i].full_text)],
              LAMBDA t : t.len > MinTopicLength)

\* extract_topics: one topic_info per component, in order
extract_topics(tw) ==
    [k \in 1..Len(tw) |->
        [topic_id |-> k - 1, top_words |-> tw[k],
         label |-> _assign_topic_label(tw[k])]]

\* np.argmax of one distribution: the first index of the maximum, from 1
ArgMax(d) ==
    CHOOSE i \in 1..Len(d) :
        /\ \A j \in 1..Len(d) : d[j] <= d[i]
        /\ \A j \in 1..(i - 1) : d[j] < d[i]

\* lines 143-146, for one row and its dominant topic x
WithTopic(r, x, topics) ==
    [r EXCEPT !.topic_id = PyInt(x),
              !.topic_label = IF x < Len(topics)
                              THEN PyName(topics[x + 1].label)
                              ELSE PyName("Unknown")]

\* assign_topics_to_posts: one distribution per prepared text; the
\* assignment of a column of another length than the frame raises, and the
\* except clause returns the frame as it was
assign_topics_to_posts(dists, df, topics) ==
    IF Len(dists) # Len(df) THEN df
    ELSE [i \in 1..Len(df) |->
            WithTopic(df[i], ArgMax(dists[i]) - 1, topics)]

\* the top words LDA may find for one topic, the distributions it may give
\* one text
TopicWordLists ==
    { << <<"p", "r", "i", "c", "e">> >>,
      << <<"a", "n", "d", "r", "o", "i", "d">> >> }
Distributions ==
    { <<1, 6, 1, 1, 1>>, <<4, 1, 4, 0, 1>>, <<0, 0, 1, 1, 8>> }

\* load_data found data/processed_reddit_data.csv
TopicData == IF processed_csv = None THEN <<>> ELSE processed_csv.rows

\* run(): no processed file
TopicRunNoData ==
    /\ tm_ret = Unset
    /\ processed_csv = None
    /\ tm_ret' = PyFalse
    /\ UNCHANGED <<tm_topics, tm_dists, tm_file>>
    /\ OnlyTopicRun

\* run(): fit_lda returns None (no text left, or no term left by min_df
\* and max_df)
TopicRunFitFails ==
    /\ tm_ret = Unset
    /\ processed_csv # None
    /\ tm_ret' = PyFalse
    /\ UNCHANGED <<tm_topics, tm_dists, tm_file>>
    /\ OnlyTopicRun

\* run(): the model is fitted, the topics are extracted and assigned, and
\* data/topic_modeling_results.csv is written
TopicRunOk ==
    /\ tm_ret = Unset
    /\ processed_csv # None
    /\ prepare_texts(TopicData) # <<>>
    /\ \E tw \in [1..n_topics -> TopicWordLists],
          ds \in [1..Len(prepare_texts(TopicData)) -> Distributions] :
          /\ tm_topics' = extract_topics(tw)
          /\ tm_dists' = ds
          /\ tm_file' = Frame(assign_topics_to_posts(ds, TopicData,
                                                     extract_topics(tw)))
    /\ tm_ret' = PyTrue
    /\ OnlyTopicRun

\* run(): as TopicRunOk, but to_csv raises; save_results returns False,
\* which run() does not look at
TopicRunSaveFails ==
    /\ tm_ret = Unset
    /\ processed_csv # None
    /\ prepare_texts(TopicData) # <<>>
    /\ \E tw \in [1..n_topics -> TopicWordLists],
          ds \in [1..Len(prepare_texts(TopicData)) -> Distributions] :
          /\ tm_topics' = extract_topics(tw)
          /\ tm_dists' = ds
    /\ tm_ret' = PyTrue
    /\ UNCHANGED tm_file
    /\ OnlyTopicRun

\* extract_topics on an instance whose self.topics holds topics already:
\* the topic_info of every component is appended to the list
extract_topics_onto(topics, tw) == topics \o extract_topics(tw)

\* run() once more on the same TopicModeler: the model is fitted anew, its
\* topics are appended to self.topics, the posts are labelled from
\* self.topics and the results file is written again
TopicRunAgain ==
    /\ tm_ret = PyTrue
    /\ Len(tm_topics) < MaxModelerRuns * n_topics
    /\ processed_csv # None
    /\ prepare_texts(TopicData) # <<>>
    /\ \E tw \in [1..n_topics -> TopicWordLists],
          ds \in [1..Len(prepare_texts(TopicData)) -> Distributions] :
          /\ tm_topics' = extract_topics_onto(tm_topics, tw)
          /\ tm_dists' = ds
          /\ tm_file' = Frame(assign_topics_to_posts(ds, TopicData,
                                  extract_topics_onto(tm_topics, tw)))
    /\ UNCHANGED tm_ret
    /\ OnlyTopicRun

(***************************************************************************)
(* process_youtube_data.  The columns that are copied unchanged (brand,    *)
(* subreddit, video_title, video_channel, search_query, source, url,       *)
(* permalink) are left out of the rows, but for author.                    *)
(***************************************************************************)
\* re: http\S+ tried at index i; the index of the last character matched,
\* or 0
HttpMatchEnd(s, i) ==
    IF HasAt(s, i, <<"h", "t", "t", "p">>) /\ NonSpaceRun(s, i + 4) >= 1
    THEN i + 3 + NonSpaceRun(s, i + 4)
    ELSE 0

\* str.replace(r'http\S+', '', regex=True)
RECURSIVE RemoveHttpFrom(_, _)
RemoveHttpFrom(s, i) ==
    IF i > Len(s) THEN <<>>
    ELSE LET e == HttpMatchEnd(s, i)
         IN  IF e > 0 THEN RemoveHttpFrom(s, e + 1)
             ELSE <<s[i]>> \o RemoveHttpFrom(s, i + 1)

\* the length of the longest run of \w starting at index i
RECURSIVE WordRun(_, _)
WordRun(s, i) ==
    IF i > Len(s) \/ s[i] \notin WordChars THEN 0 ELSE 1 + WordRun(s, i + 1)

\* str.replace(r'@\w+', '', regex=True)
RECURSIVE RemoveMentionsFrom(_, _)
RemoveMentionsFrom(s, i) ==
    IF i > Len(s) THEN <<>>
    ELSE IF s[i] = "@" /\ WordRun(s, i + 1) >= 1
         THEN RemoveMentionsFrom(s, i + 1 + WordRun(s, i + 1))
         ELSE <<s[i]>> \o RemoveMentionsFrom(s, i + 1)

\* lines 60-62: the links and the mentions removed, then str.strip()
clean_comment(s) == Strip(RemoveMentionsFrom(RemoveHttpFrom(s, 1), 1))

\* df['text'].str[:100]
TitleLength == 100
\* processed['text'].str.len() >= 10
MinCommentLength == 10
\* the weights of the YouTube engagement_score, in tenths
LikeWeight  == 10
ReplyWeight == 20

\* the YouTube engagement_score computed with the Reddit weights
engagement_unified(r) ==
    PyFloat(ScoreWeight * r.like_count + CommentWeight * r.reply_count)

\* processed['score'] * 1.0 + processed['num_comments'] * 2.0, for the
\* comment the row is made of
youtube_engagement(c) ==
    PyFloat(LikeWeight * c.like_count + ReplyWeight * c.reply_count)

\* the standardized row of one comment
YoutubeRow(c) ==
    [id |-> c.id,
     title |-> PyStr(SubSeq(c.text.val, 1, Min(TitleLength, Len(c.text.val)))),
     body |-> c.text,
     text |-> PyStr(clean_comment(c.text.val)),
     author |-> c.author,
     score |-> c.like_count,
     num_comments |-> c.reply_count,
     created_utc |-> PyInt(c.published_at.epoch),
     timestamp |-> c.published_at,
     video_id |-> c.video_id,
     engagement_score |-> youtube_engagement(c)]

\* process_youtube_data filtering on the length of the text as it came
process_youtube_data_uncleaned(df) ==
    SelectSeq([i \in 1..Len(df) |-> YoutubeRow(df[i])],
              LAMBDA r : Len(r.body.val) >= MinCommentLength)

\* process_youtube_data: the rows standardized, the short ones removed
process_youtube_data(df) ==
    SelectSeq([i \in 1..Len(df) |-> YoutubeRow(df[i])],
              LAMBDA r : Len(r.text.val) >= MinCommentLength)

\* load_youtube_data found the file and df.empty is false
HasComments ==
    IF youtube_comments = None THEN FALSE ELSE youtube_comments.rows # <<>>

\* main(): no file, or no comment in it
YoutubeNoData ==
    /\ yt_ret = Unset
    /\ ~HasComments
    /\ yt_ret' = None
    /\ UNCHANGED <<youtube_comments, processed_json>>
    /\ OnlyYoutube

\* main(): the comments are processed and data/youtube_processed.json is
\* written
YoutubeProcessed ==
    /\ yt_ret = Unset
    /\ HasComments
    /\ \A i \in 1..Len(youtube_comments.rows) :
          Parseable(youtube_comments.rows[i].published_at)
    /\ processed_json' = Frame(process_youtube_data(youtube_comments.rows))
    /\ yt_ret' = PyName("complete")
    /\ UNCHANGED youtube_comments
    /\ OnlyYoutube

\* main(): pd.to_datetime(df['published_at']) raises, nothing is written
YoutubeRaises ==
    /\ yt_ret = Unset
    /\ HasComments
    /\ \E i \in 1..Len(youtube_comments.rows) :
          ~Parseable(youtube_comments.rows[i].published_at)
    /\ yt_ret' = Raised("ValueError")
    /\ UNCHANGED <<youtube_comments, processed_json>>
    /\ OnlyYoutube

(***************************************************************************)
(* YouTubeExtractor.extract_video_comments.  A comment is the number of    *)
(* its thread in the order the API serves the video's threads; a page      *)
(* token is the number of threads served before the page it asks for.      *)
(***************************************************************************)
OnlyExtract == UNCHANGED <<cleanVars, procVars, sentVars, loadVars, topicVars,
                           ytVars, tmVars, mainVars, readVars, kpiVars>>

\* the largest page the extractor asks for
MaxPageSize == 100

\* a request that asks for a full page whatever is still wanted
page_size_full(wanted, have) == MaxPageSize

\* maxResults=min(100, max_comments - len(comments))
page_size(wanted, have) == Min(MaxPageSize, wanted - have)

\* the number of threads served before the page a token asks for
PageStart(token) == IF token = None THEN 0 ELSE token.val

\* response.get('nextPageToken'): the API gives a token while threads remain
NextToken(served) ==
    IF served < video_threads THEN PyInt(served) ELSE None

\* one turn of the while loop whose request succeeds: the items of the
\* page are appended, and the loop is left if the page has no token
FetchPage ==
    /\ ex_pc = "loop"
    /\ Len(comments) < max_comments
    /\ LET maxResults == page_size(max_comments, Len(comments))
           start == PageStart(next_page_token)
           most == Min(maxResults, video_threads - start)
       IN  \E n \in (IF most >= 1 THEN 1..most ELSE {0}) :
              /\ comments' = comments \o [k \in 1..n |-> start + k]
              /\ next_page_token' = NextToken(start + n)
              /\ requests' = Append(requests,
                                [maxResults |-> maxResults,
                                 pageToken |-> next_page_token,
                                 before |-> Len(comments),
                                 status |-> "ok", items |-> n,
                                 nextPageToken |-> NextToken(start + n)])
              /\ ex_pc' = IF NextToken(start + n) = None
                          THEN "break" ELSE "loop"
    /\ UNCHANGED <<video_threads, max_comments, ex_ret>>
    /\ OnlyExtract

\* one turn of the while loop whose request.execute() raises HttpError:
\* the except clause returns []
FetchRaises ==
    /\ ex_pc = "loop"
    /\ Len(comments) < max_comments
    /\ requests' = Append(requests,
                      [maxResults |-> page_size(max_comments, Len(comments)),
                       pageToken |-> next_page_token,
                       before |-> Len(comments),
                       status |-> "raised", items |-> 0,
                       nextPageToken |-> None])
    /\ ex_ret' = PyList(<<>>)
    /\ ex_pc' = "done"
    /\ UNCHANGED <<video_threads, max_comments, comments, next_page_token>>
    /\ OnlyExtract

\* the loop is over (its condition is false, or break): return comments
ExtractReturns ==
    /\ ex_pc = "break" \/ (ex_pc = "loop" /\ ~(Len(comments) < max_comments))
    /\ ex_ret' = PyList(comments)
    /\ ex_pc' = "done"
    /\ UNCHANGED <<video_threads, max_comments, comments, next_page_token,
                   requests>>
    /\ OnlyExtract

IdleExtract ==
    /\ ex_pc = "idle"
    /\ video_threads = 0
    /\ max_comments = 0
    /\ comments = <<>>
    /\ next_page_token = None
    /\ requests = <<>>
    /\ ex_ret = Unset

IdleMain ==
    /\ sa_exit = Unset
    /\ load_exit = Unset

IdleYoutube ==
    /\ youtube_comments = None
    /\ yt_ret = Unset

IdleTopicRun ==
    /\ tm_topics = <<>>
    /\ tm_dists = <<>>
    /\ tm_file = None
    /\ tm_ret = Unset

(***************************************************************************)
(* main() of sentiment_analysis.py and of load_to_sqlite.py: the workflow  *)
(* is called inside try/except that logs and re-raises; what it returns is *)
(* not looked at.                                                          *)
(***************************************************************************)
OnlyMain == UNCHANGED <<cleanVars, procVars, sentVars, loadVars, topicVars,
                        ytVars, tmVars, readVars, kpiVars, exVars>>

\* the exit status of the interpreter: 1 after an uncaught exception, 0
\* when main() returns
ExitStatus(ret) == IF ret.kind = "raised" THEN PyInt(1) ELSE PyInt(0)

\* sentiment_analysis.py: analyzer.analyze() has returned, main() returns
AnalyzeMainReturns ==
    /\ sa_pc = "done"
    /\ sa_exit = Unset
    /\ sa_exit' = ExitStatus(sa_ret)
    /\ UNCHANGED load_exit
    /\ OnlyMain

\* load_to_sqlite.py: loader.load() has returned or raised, the connection
\* is closed, main() returns or the exception goes on
LoadMainReturns ==
    /\ load_ret # Unset
    /\ load_exit = Unset
    /\ load_exit' = ExitStatus(load_ret)
    /\ UNCHANGED sa_exit
    /\ OnlyMain

(***************************************************************************)
(* generate_kpi_data.  A row is its date and its dimension name; the       *)
(* measures, of which the impressions are random, are left out.  A date is *)
(* a number of days after 2023-01-01.                                      *)
(***************************************************************************)
OnlyKpi == UNCHANGED <<cleanVars, procVars, sentVars, loadVars, topicVars,
                       ytVars, tmVars, mainVars, readVars, exVars>>

TableNames ==
    {"marketing_kpis", "channel_performance", "data_source_performance",
     "campaign_performance", "time_series_data"}

Date(d) == [kind |-> "date", day |-> d]
KpiRow(date, name) == [date |-> date, name |-> name]

\* runs of generate_kpi_data.main
MaxKpiRuns == 3
\* the days datetime.now().date() may give
Todays == {Date(1036), Date(1037)}

\* range(12)
Months == 12
\* timedelta(days=30*i)
MonthStep == 30

\* dates = [start_date + timedelta(days=30*i) for i in range(12)]
dates == [i \in 1..Months |-> Date(MonthStep * (i - 1))]

\* the keys of DASHBOARD_KPI_TARGETS that generate_kpi_data lists
kpis ==
    <<"spend", "cpm", "ctr", "cpc", "video_views", "impressions",
      "conversions", "conversion_rate">>

\* the keys of CHANNEL_PERFORMANCE, and channels of generate_time_series_data
channels == <<"Programmatic", "Paid Search", "Paid Social", "Organic">>

data_sources ==
    <<"Amazon Ad Server (Sizmek)", "StackAdapt", "LinkedIn Ads", "Facebook",
      "Google Display & Video 360", "Bing Ads (Microsoft Advertising)",
      "Google Search Ads 360">>

campaigns ==
    <<"Business-focused zero tolerance architecture",
      "Persistent 24/7 attitude", "Integrated dedicated contingency",
      "Profound intangible policy", "Centralized modular throughput",
      "Automated uniform software", "Cross-platform static hierarchy",
      "Networked value-added time-frame">>

\* [(today, name) for name in names]
TodayRecords(today, names) ==
    [k \in 1..Len(names) |-> KpiRow(today, names[k])]

\* for date in dates: for x in names: records.append((date.date(), x, ...))
DateMajorRecords(names) ==
    [k \in 1..(Len(dates) * Len(names)) |->
        KpiRow(dates[((k - 1) \div Len(names)) + 1],
               names[((k - 1) % Len(names)) + 1])]

\* for channel in channels: for i, date in enumerate(dates): ...
ChannelMajorRecords(names) ==
    [k \in 1..(Len(names) * Len(dates)) |->
        KpiRow(dates[((k - 1) % Len(dates)) + 1],
               names[((k - 1) \div Len(dates)) + 1])]

\* the INSERTs without the DELETE before them
insert_only(rows, records) == rows \o records

\* DELETE FROM the table, executemany INSERT, commit
delete_insert(rows, records) == records

\* create_database_schema: CREATE TABLE IF NOT EXISTS, five times
create_database_schema(db) ==
    [t \in TableNames |-> IF db[t] = None THEN <<>> ELSE db[t]]

\* main(): the connection is opened and the schema is created
KpiStart ==
    /\ kpi_pc = "idle"
    /\ kpi_runs < MaxKpiRuns
    /\ kpi_runs' = kpi_runs + 1
    /\ kpi_db' = create_database_schema(kpi_db)
    /\ kpi_pc' = "generate_kpi_data"
    /\ kpi_ret' = Unset
    /\ OnlyKpi

\* one generator: the table replaced by its records, the next one is due
Generate(pc, next, table, records) ==
    /\ kpi_pc = pc
    /\ kpi_db' = [kpi_db EXCEPT ![table] = delete_insert(@, records)]
    /\ kpi_pc' = next
    /\ UNCHANGED <<kpi_runs, kpi_ret>>
    /\ OnlyKpi

GenerateKpiData ==
    \E today \in Todays :
        Generate("generate_kpi_data", "generate_channel_performance",
                 "marketing_kpis", TodayRecords(today, kpis))

GenerateChannelPerformance ==
    \E today \in Todays :
        Generate("generate_channel_performance",
                 "generate_data_source_performance",
                 "channel_performance", TodayRecords(today, channels))

GenerateDataSourcePerformance ==
    Generate("generate_data_source_performance",
             "generate_campaign_performance",
             "data_source_performance", DateMajorRecords(data_sources))

GenerateCampaignPerformance ==
    Generate("generate_campaign_performance", "generate_time_series_data",
             "campaign_performance", DateMajorRecords(campaigns))

\* the last generator; main() logs the success and closes the connection
GenerateTimeSeriesData ==
    /\ kpi_pc = "generate_time_series_data"
    /\ kpi_db' = [kpi_db EXCEPT !["time_series_data"] =
                      delete_insert(@, ChannelMajorRecords(channels))]
    /\ kpi_pc' = "idle"
    /\ kpi_ret' = None
    /\ UNCHANGED kpi_runs
    /\ OnlyKpi

\* a statement of the generator that is due raises: main() logs, re-raises
\* and closes the connection, which rolls the open transaction back
KpiRaises ==
    /\ kpi_pc # "idle"
    /\ kpi_pc' = "idle"
    /\ kpi_ret' = Raised("Error")
    /\ UNCHANGED <<kpi_db, kpi_runs>>
    /\ OnlyKpi

IdleKpi ==
    /\ kpi_db = [t \in TableNames |-> None]
    /\ kpi_pc = "idle"
    /\ kpi_runs = 0
    /\ kpi_ret = Unset

(***************************************************************************)
(* Bounds and inputs                                                       *)
(***************************************************************************)
SeqsUpTo(S, n) == UNION {[1..k -> S] : k \in 0..n}

\* posts of a frame whose counters vary
MaxMetricPosts == 2
\* posts of a frame whose keys repeat
MaxPosts == 3
\* rows of the processed file the sentiment stage reads
MaxRecords == 3
\* the batch sizes tried
MaxBatch == 2
\* rows of the files the loader reads, and the runs of load()
MaxRows == 2
MaxSentRows == 1
MaxLoads == 2
\* the top words of a topic
MaxTopWords == 2
\* rows of a processed file whose columns vary
MaxShapeRows == 1
\* posts and comments of the frames whose engagement is compared
MaxEngPosts == 1
MaxComments == 1
\* posts of a frame whose title and body vary
MaxLengthPosts == 2
\* records of the processed file when the scripts are run through main()
MaxMainRecords == 1
\* documents of the collection and posts of the JSON files, told apart
MaxStorePosts == 2
\* comments of the file the YouTube processor reads in one run
MaxYoutubeComments == 2
\* threads of a video, and comments asked of it
MaxThreads == 4
MaxWanted == 4
\* rows of a sentiment file whose ids may repeat
MaxMergeRows == 2
\* rows of the processed file the topic modeler reads
MaxTopicRows == 2
\* records of the processed file in a run of the three stages
MaxStageRecords == 1

IsoTime == [kind |-> "iso", hour |-> 9, dow |-> 0, month |-> 11]
BadTime == PyStr(<<"?">>)
SomeComments == PyList(<< <<"a">>, <<"h", "t", "t", "p">> >>)

Scores        == {-3, -1, 0, 2}
CommentCounts == {0, 3}
MetricTitles  == {NaN, PyStr(<<"H", "i", "!">>)}

\* a frame of posts with distinct keys whose title and counters vary
MetricPost(i, f) ==
    [post_id |-> i, title |-> f.title, body |-> PyStr(<<"a", "*", " ", " ", "W">>),
     score |-> f.score, num_comments |-> f.num_comments,
     created_utc |-> IsoTime, comments |-> SomeComments]

MetricFrames ==
    { [i \in 1..Len(fs) |-> MetricPost(i, fs[i])] :
        fs \in SeqsUpTo([title : MetricTitles, score : Scores,
                         num_comments : CommentCounts], MaxMetricPosts) }

\* a frame of posts whose keys repeat, told apart by their titles
DupPosts ==
    { [post_id |-> k, title |-> PyStr(<<t>>), body |-> NaN,
       score |-> 0, num_comments |-> 0,
       created_utc |-> c, comments |-> NaN] :
        k \in 1..2, t \in {"a", "x"}, c \in {IsoTime, BadTime} }

DupFrames == SeqsUpTo(DupPosts, MaxPosts)

\* posts whose title and body are missing, empty or a few characters
LengthTexts == {NaN, None, PyStr(<<>>), PyStr(<<"H", "i", "!">>),
                PyStr(<<"a", "*", " ", " ", "W">>)}

LengthFrames ==
    { [i \in 1..Len(fs) |->
         [post_id |-> i, title |-> fs[i].title, body |-> fs[i].body,
          score |-> 2, num_comments |-> 3, created_utc |-> IsoTime,
          comments |-> SomeComments]] :
        fs \in SeqsUpTo([title : LengthTexts, body : LengthTexts],
                        MaxLengthPosts) }

\* the posts of one store: the titles tell the collection ("m", "n") from
\* the JSON files ("j", "k")
StorePosts(titles) ==
    { [i \in 1..Len(ts) |->
         [post_id |-> i, title |-> PyStr(<<ts[i]>>), body |-> NaN,
          score |-> 0, num_comments |-> 0, created_utc |-> IsoTime,
          comments |-> NaN]] :
        ts \in SeqsUpTo(titles, MaxStorePosts) }

\* the rows of data/processed_reddit_data.csv as read_csv gives them: an
\* empty full_text comes back as NaN, one of digits only as a number
CsvTexts == {NaN, PyFloat(7), Prefix("a", 3), Prefix("b", max_length + 1)}

CsvFrames ==
    { Frame([i \in 1..Len(ts) |->
              [post_id |-> i, full_text |-> ts[i], sentiment_label |-> Absent,
               sentiment_score |-> Absent, sentiment_category |-> Absent]]) :
        ts \in SeqsUpTo(CsvTexts, MaxRecords) }

CsvFramesUpTo(n) == {f \in CsvFrames : Len(f.rows) <= n}

\* the files the loader reads
ProcessedFiles ==
    {None} \cup {Frame(rows) : rows \in SeqsUpTo({[id |-> "a", score |-> 1],
                                                 [id |-> "b", score |-> 2]},
                                                MaxRows)}

SentimentRows ==
    { [id |-> "a", sentiment_label |-> PyName("POSITIVE"),
       sentiment_score |-> PyFloat(90)],
      [id |-> "b", sentiment_label |-> PyName("NEGATIVE"),
       sentiment_score |-> PyFloat(40)] }

SentimentFiles ==
    {None} \cup {Frame(rows) : rows \in SeqsUpTo(SentimentRows, MaxSentRows)}

\* processed files that have or lack columns: two of the sink schema, one
\* the sink renames and one it does not know
ShapeColumns == {"id", "score", "created_utc", "title"}

ShapeRow(cols, id) ==
    [c \in cols |->
        CASE c = "id" -> id
          [] c = "score" -> 1
          [] c = "created_utc" -> PyInt(1700000000)
          [] c = "title" -> PyStr(<<"t">>)]

ShapedFiles ==
    { Frame([i \in 1..Len(ids) |-> ShapeRow(cols, ids[i])]) :
        cols \in SUBSET ShapeColumns,
        ids \in UNION {[1..n -> {"a", "b"}] : n \in 1..MaxShapeRows} }

\* Reddit posts that vary in their counters only
EngagementFrames ==
    { [i \in 1..Len(fs) |-> MetricPost(i, fs[i])] :
        fs \in SeqsUpTo([title : {PyStr(<<"H", "i", "!">>)}, score : Scores,
                         num_comments : CommentCounts], MaxEngPosts) }

Rep(c, n) == [i \in 1..n |-> c]

\* comments of ten characters, of nine after a mention, of ten after a link
CommentTexts ==
    { Rep("a", 10),
      <<"@", "a", "x", " ">> \o Rep("a", 9),
      <<"h", "t", "t", "p", ":", "/", "/", "x", " ">> \o Rep("a", 10) }

YoutubeTime == [kind |-> "iso", epoch |-> 1700000000]

YoutubeComment(i, f) ==
    [id |-> <<"a", "b", "c">>[i], text |-> PyStr(f.text),
     author |-> PyStr(<<"u", <<"a", "b", "c">>[i]>>),
     like_count |-> f.like_count, reply_count |-> f.reply_count,
     published_at |-> f.published_at, video_id |-> PyStr(<<"x">>)]

YoutubeFiles ==
    {None} \cup
    { Frame([i \in 1..Len(fs) |-> YoutubeComment(i, fs[i])]) :
        fs \in SeqsUpTo([text : CommentTexts, like_count : {0, 2},
                         reply_count : {0, 3},
                         published_at : {YoutubeTime, BadTime}], MaxComments) }

\* texts of twenty characters and of twenty-one, and a missing text
TopicTexts ==
    {NaN, Prefix("a", MinTopicLength), Prefix("b", MinTopicLength + 1)}

TopicFrames ==
    { Frame([i \in 1..Len(ts) |->
              [post_id |-> i, full_text |-> ts[i], topic_id |-> Absent,
               topic_label |-> Absent]]) :
        ts \in SeqsUpTo(TopicTexts, MaxTopicRows) }

\* words a topic's top words are drawn from
Vocabulary ==
    { <<"p", "r", "i", "c", "e">>,
      <<"r", "o", "i">>,
      <<"t", "o", "o", "l">>,
      <<"d", "a", "t", "a">>,
      <<"v", "s">>,
      <<"a", "n", "d", "r", "o", "i", "d">>,
      <<"c", "a", "p", "i", "t", "a", "l">>,
      <<"C", "o", "s", "t">>,
      <<"t", "e", "a", "m">> }

(***************************************************************************)
(* Specifications                                                          *)
(***************************************************************************)
CleanText ==
    /\ cleaned = Unset
    /\ cleaned' = clean_text(text)
    /\ UNCHANGED <<text, recleaned>>
    /\ OnlyClean

CleanAgain ==
    /\ cleaned # Unset
    /\ recleaned = Unset
    /\ recleaned' = clean_text(cleaned)
    /\ UNCHANGED <<text, cleaned>>
    /\ OnlyClean

InitClean ==
    /\ text \in CleanInputs
    /\ cleaned = Unset
    /\ recleaned = Unset
    /\ IdleProc /\ IdleSent /\ IdleLoad /\ IdleTopic
    /\ IdleYoutube /\ IdleTopicRun
    /\ IdleMain
    /\ IdleRead
    /\ IdleKpi
    /\ IdleExtract

NextClean == CleanText \/ CleanAgain

SpecClean == InitClean /\ [][NextClean]_vars

InitProcess(frames) ==
    /\ \E rows \in frames :
          /\ mongo_docs = rows
          /\ json_posts \in {None, Frame(rows)}
    /\ mongo_up \in BOOLEAN
    /\ processed_csv = None
    /\ proc_ret = Unset
    /\ IdleClean /\ IdleSent /\ IdleLoad /\ IdleTopic
    /\ IdleYoutube /\ IdleTopicRun
    /\ IdleMain
    /\ IdleRead
    /\ IdleKpi
    /\ IdleExtract

NextProcess == ProcessNoData \/ ProcessOk \/ ProcessWriteFails

InitMetrics == InitProcess(MetricFrames)

SpecMetrics == InitMetrics /\ [][NextProcess]_vars

InitDedupe == InitProcess(DupFrames)

SpecDedupe == InitDedupe /\ [][NextProcess]_vars

InitLengths == InitProcess(LengthFrames)

SpecLengths == InitLengths /\ [][NextProcess]_vars

\* process() with a collection and JSON files that differ
InitFallback ==
    /\ mongo_up \in BOOLEAN
    /\ mongo_docs \in StorePosts({"m", "n"})
    /\ json_posts \in {None} \cup {Frame(rows) : rows \in StorePosts({"j", "k"})}
    /\ processed_csv = None
    /\ proc_ret = Unset
    /\ IdleClean /\ IdleSent /\ IdleLoad /\ IdleTopic
    /\ IdleYoutube /\ IdleTopicRun
    /\ IdleMain
    /\ IdleRead
    /\ IdleKpi
    /\ IdleExtract

SpecFallback == InitFallback /\ [][NextProcess]_vars

InitSentiment ==
    /\ processed_csv \in {None} \cup CsvFrames
    /\ mongo_up = FALSE /\ mongo_docs = <<>> /\ json_posts = None
    /\ proc_ret = Unset
    /\ sa_pc = "load_model"
    /\ batch_size \in 1..MaxBatch
    /\ sa_df = Unset
    /\ texts = <<>>
    /\ batch_i = 0
    /\ results = PyList(<<>>)
    /\ calls = <<>>
    /\ results_file = None
    /\ sa_ret = Unset
    /\ IdleClean /\ IdleLoad /\ IdleTopic
    /\ IdleYoutube /\ IdleTopicRun
    /\ IdleMain
    /\ IdleRead
    /\ IdleKpi
    /\ IdleExtract

NextSentiment ==
    \/ LoadModelOk \/ LoadModelFails
    \/ LoadDataOk \/ LoadDataFails
    \/ PrepareTexts
    \/ ClassifyBatch \/ ClassifyBatchShort \/ ClassifyBatchRaises
    \/ ReturnResults
    \/ AbortRun \/ ProcessResults
    \/ SaveResultsOk \/ SaveResultsFails

SpecSentiment == InitSentiment /\ [][NextSentiment]_vars

InitLoad ==
    /\ IdleClean /\ IdleProc /\ IdleSent /\ IdleLoad /\ IdleTopic
    /\ IdleYoutube /\ IdleTopicRun
    /\ IdleMain
    /\ IdleRead
    /\ IdleKpi
    /\ IdleExtract

\* one more run of load()
Run == loads < MaxLoads /\ loads' = loads + 1 /\ OnlyLoad

\* the runs of load(), each on the files it finds
RunConnectFails == Run /\ LoadConnectFails

RunNoProcessed ==
    Run /\ \E pj \in ProcessedFiles, sc \in SentimentFiles : LoadNoProcessed(pj, sc)

RunInserted ==
    Run /\ \E pj \in ProcessedFiles, sc \in SentimentFiles : LoadInserted(pj, sc)

RunInsertFails ==
    Run /\ \E pj \in ProcessedFiles, sc \in SentimentFiles : LoadInsertFails(pj, sc)

NextLoad == RunConnectFails \/ RunNoProcessed \/ RunInserted \/ RunInsertFails

SpecLoad == InitLoad /\ [][NextLoad]_vars

\* the Reddit processor and the YouTube processor, each run once on its
\* own input
InitEngagement ==
    /\ mongo_up = FALSE /\ mongo_docs = <<>>
    /\ json_posts \in {Frame(rows) : rows \in EngagementFrames}
    /\ processed_csv = None
    /\ proc_ret = Unset
    /\ youtube_comments \in YoutubeFiles
    /\ yt_ret = Unset
    /\ IdleClean /\ IdleSent /\ IdleLoad /\ IdleTopic /\ IdleTopicRun
    /\ IdleMain
    /\ IdleRead
    /\ IdleKpi
    /\ IdleExtract

NextEngagement ==
    \/ ProcessNoData \/ ProcessOk \/ ProcessWriteFails
    \/ YoutubeNoData \/ YoutubeProcessed \/ YoutubeRaises

SpecEngagement == InitEngagement /\ [][NextEngagement]_vars

\* one run of the YouTube processor on a file of several comments
YoutubeBatches ==
    {None} \cup
    { Frame([i \in 1..Len(fs) |-> YoutubeComment(i, fs[i])]) :
        fs \in SeqsUpTo([text : CommentTexts, like_count : {0, 2},
                         reply_count : {3},
                         published_at : {YoutubeTime, BadTime}],
                        MaxYoutubeComments) }

InitYoutube ==
    /\ mongo_up = FALSE /\ mongo_docs = <<>>
    /\ json_posts = None
    /\ processed_csv = None
    /\ proc_ret = Unset
    /\ youtube_comments \in YoutubeBatches
    /\ yt_ret = Unset
    /\ IdleClean /\ IdleSent /\ IdleLoad /\ IdleTopic /\ IdleTopicRun
    /\ IdleMain
    /\ IdleRead
    /\ IdleKpi
    /\ IdleExtract

NextYoutube == YoutubeNoData \/ YoutubeProcessed \/ YoutubeRaises

SpecYoutube == InitYoutube /\ [][NextYoutube]_vars

\* one call of extract_video_comments, the try block just entered
InitExtract ==
    /\ mongo_up = FALSE /\ mongo_docs = <<>>
    /\ json_posts = None
    /\ processed_csv = None
    /\ proc_ret = Unset
    /\ IdleClean /\ IdleSent /\ IdleLoad /\ IdleTopic /\ IdleTopicRun
    /\ IdleYoutube /\ IdleMain /\ IdleRead /\ IdleKpi
    /\ ex_pc = "loop"
    /\ video_threads \in 0..MaxThreads
    /\ max_comments \in 0..MaxWanted
    /\ comments = <<>>
    /\ next_page_token = None
    /\ requests = <<>>
    /\ ex_ret = Unset

NextExtract == FetchPage \/ FetchRaises \/ ExtractReturns

SpecExtract == InitExtract /\ [][NextExtract]_vars

\* one run of TopicModeler.run on a processed file
InitTopicRun ==
    /\ processed_csv \in {None} \cup TopicFrames
    /\ mongo_up = FALSE /\ mongo_docs = <<>> /\ json_posts = None
    /\ proc_ret = Unset
    /\ IdleTopicRun
    /\ IdleClean /\ IdleSent /\ IdleLoad /\ IdleTopic /\ IdleYoutube
    /\ IdleMain
    /\ IdleRead
    /\ IdleKpi
    /\ IdleExtract

NextTopicRun ==
    TopicRunNoData \/ TopicRunFitFails \/ TopicRunOk \/ TopicRunSaveFails

SpecTopicRun == InitTopicRun /\ [][NextTopicRun]_vars

\* run() called again and again on one TopicModeler
InitTopicAgain ==
    /\ processed_csv \in {None} \cup
                         {f \in TopicFrames : Len(f.rows) <= MaxAgainRows}
    /\ mongo_up = FALSE /\ mongo_docs = <<>> /\ json_posts = None
    /\ proc_ret = Unset
    /\ IdleTopicRun
    /\ IdleClean /\ IdleSent /\ IdleLoad /\ IdleTopic /\ IdleYoutube
    /\ IdleMain
    /\ IdleRead
    /\ IdleKpi
    /\ IdleExtract

NextTopicAgain ==
    \/ TopicRunNoData \/ TopicRunFitFails \/ TopicRunOk \/ TopicRunSaveFails
    \/ TopicRunAgain

SpecTopicAgain == InitTopicAgain /\ [][NextTopicAgain]_vars

\* one run of load() on a processed file of any shape
FirstRun == load_ret = Unset /\ loads' = loads + 1 /\ OnlyLoad

ShapeInserted ==
    FirstRun /\ \E pj \in ShapedFiles, sc \in SentimentFiles :
                   CanMerge(pj, sc) /\ LoadInserted(pj, sc)

ShapeInsertFails ==
    FirstRun /\ \E pj \in ShapedFiles, sc \in SentimentFiles :
                   CanMerge(pj, sc) /\ LoadInsertFails(pj, sc)

ShapeMergeRaises ==
    FirstRun /\ \E pj \in ShapedFiles, sc \in SentimentFiles :
                   LoadMergeRaises(pj, sc)

NextInsert == ShapeInserted \/ ShapeInsertFails \/ ShapeMergeRaises

SpecInsert == InitLoad /\ [][NextInsert]_vars

\* sentiment_analysis.py and load_to_sqlite.py, each run once as a script
FirstConnectFails == FirstRun /\ LoadConnectFails

FirstNoProcessed ==
    FirstRun /\ \E sc \in SentimentFiles : LoadNoProcessed(None, sc)

InitMain ==
    /\ processed_csv \in {None} \cup CsvFramesUpTo(MaxMainRecords)
    /\ mongo_up = FALSE /\ mongo_docs = <<>> /\ json_posts = None
    /\ proc_ret = Unset
    /\ sa_pc = "load_model"
    /\ batch_size \in 1..MaxBatch
    /\ sa_df = Unset
    /\ texts = <<>>
    /\ batch_i = 0
    /\ results = PyList(<<>>)
    /\ calls = <<>>
    /\ results_file = None
    /\ sa_ret = Unset
    /\ IdleMain
    /\ IdleClean /\ IdleLoad /\ IdleTopic /\ IdleYoutube /\ IdleTopicRun
    /\ IdleRead
    /\ IdleKpi
    /\ IdleExtract

NextMain ==
    \/ LoadModelOk \/ LoadModelFails
    \/ LoadDataOk \/ LoadDataFails
    \/ PrepareTexts
    \/ ClassifyBatch \/ ClassifyBatchShort \/ ClassifyBatchRaises
    \/ ReturnResults
    \/ AbortRun \/ ProcessResults
    \/ SaveResultsOk \/ SaveResultsFails
    \/ AnalyzeMainReturns
    \/ FirstConnectFails \/ FirstNoProcessed
    \/ ShapeInserted \/ ShapeInsertFails \/ ShapeMergeRaises
    \/ LoadMainReturns

SpecMain == InitMain /\ [][NextMain]_vars

\* one run of load() with a sentiment file whose ids may repeat
MergeSentimentFiles ==
    {None} \cup {Frame(rows) : rows \in SeqsUpTo(SentimentRows, MaxMergeRows)}

MergeNoProcessed ==
    FirstRun /\ \E sc \in MergeSentimentFiles : LoadNoProcessed(None, sc)

MergeInserted ==
    FirstRun /\ \E pj \in ProcessedFiles, sc \in MergeSentimentFiles :
                   LoadInserted(pj, sc)

MergeInsertFails ==
    FirstRun /\ \E pj \in ProcessedFiles, sc \in MergeSentimentFiles :
                   LoadInsertFails(pj, sc)

NextMerge == MergeNoProcessed \/ MergeInserted \/ MergeInsertFails

SpecMerge == InitLoad /\ [][NextMerge]_vars

\* a load() on a table a previous load filled, with a reader
PreviousTables ==
    {None} \cup
    { Table(FALSE, df_final(merge_data(pj, None)).rows) :
        pj \in ProcessedFiles \ {None} }

InitReplace ==
    /\ youtube_processed \in PreviousTables
    /\ processed_json = None
    /\ sentiment_csv = None
    /\ final_df = Unset
    /\ load_ret = Unset
    /\ loads = 0
    /\ table_before = None
    /\ IdleRead
    /\ IdleClean /\ IdleProc /\ IdleSent /\ IdleTopic
    /\ IdleYoutube /\ IdleTopicRun /\ IdleMain
    /\ IdleKpi
    /\ IdleExtract

ReplaceBegins ==
    \E pj \in ProcessedFiles, sc \in SentimentFiles : ReplaceDrops(pj, sc)

NextReplace ==
    \/ ReplaceBegins \/ ReplaceCreates \/ ReplaceInserts
    \/ ReplaceInsertRaises \/ ReaderLoads

SpecReplace == InitReplace /\ [][NextReplace]_vars

\* generate_kpi_data.main run again and again on a new database
InitKpi ==
    /\ kpi_db = [t \in TableNames |-> None]
    /\ kpi_pc = "idle"
    /\ kpi_runs = 0
    /\ kpi_ret = Unset
    /\ IdleClean /\ IdleProc /\ IdleSent /\ IdleLoad /\ IdleTopic
    /\ IdleYoutube /\ IdleTopicRun /\ IdleMain /\ IdleRead
    /\ IdleExtract

NextKpi ==
    \/ KpiStart
    \/ GenerateKpiData \/ GenerateChannelPerformance
    \/ GenerateDataSourcePerformance \/ GenerateCampaignPerformance
    \/ GenerateTimeSeriesData
    \/ KpiRaises

SpecKpi == InitKpi /\ [][NextKpi]_vars

(***************************************************************************)
(* The stages run one after the other, as process_youtube_data.main prints *)
(* them: process_youtube_data.py, sentiment_analysis.py, load_to_sqlite.py.*)
(* Each stage finds the files the stages before it left on disk.           *)
(***************************************************************************)
\* sentiment_analysis.py is started once the processing has ended
StartAnalyze ==
    /\ yt_ret # Unset
    /\ sa_pc = "idle"
    /\ sa_pc' = "load_model"
    /\ batch_size' \in 1..MaxBatch
    /\ UNCHANGED <<sa_df, texts, batch_i, results, calls, results_file, sa_ret>>
    /\ OnlySent

\* load_to_sqlite.py is started once the analysis has ended; it reads
\* data/youtube_processed.json and data/youtube_sentiment.csv
StageLoad == sa_pc = "done" /\ FirstRun

StageLoadConnectFails == StageLoad /\ LoadConnectFails

StageLoadNoProcessed == StageLoad /\ LoadNoProcessed(processed_json, sentiment_csv)

StageLoadInserted == StageLoad /\ LoadInserted(processed_json, sentiment_csv)

StageLoadInsertFails == StageLoad /\ LoadInsertFails(processed_json, sentiment_csv)

\* data/processed_reddit_data.csv as DataProcessor.process may have left it
StageCsvFrames == {f \in CsvFrames : Len(f.rows) <= MaxStageRecords}

InitStages ==
    /\ youtube_comments \in YoutubeFiles
    /\ yt_ret = Unset
    /\ processed_csv \in {None} \cup StageCsvFrames
    /\ mongo_up = FALSE /\ mongo_docs = <<>> /\ json_posts = None
    /\ proc_ret = Unset
    /\ IdleClean /\ IdleSent /\ IdleLoad /\ IdleTopic /\ IdleTopicRun
    /\ IdleMain
    /\ IdleRead
    /\ IdleKpi
    /\ IdleExtract

NextStages ==
    \/ YoutubeNoData \/ YoutubeProcessed \/ YoutubeRaises
    \/ StartAnalyze
    \/ LoadModelOk \/ LoadModelFails
    \/ LoadDataOk \/ LoadDataFails
    \/ PrepareTexts
    \/ ClassifyBatch \/ ClassifyBatchShort \/ ClassifyBatchRaises
    \/ ReturnResults
    \/ AbortRun \/ ProcessResults
    \/ SaveResultsOk \/ SaveResultsFails
    \/ StageLoadConnectFails \/ StageLoadNoProcessed
    \/ StageLoadInserted \/ StageLoadInsertFails

SpecStages == InitStages /\ [][NextStages]_vars

InitTopic ==
    /\ top_words \in SeqsUpTo(Vocabulary, MaxTopWords)
    /\ topic_label = Unset
    /\ IdleClean /\ IdleProc /\ IdleSent /\ IdleLoad
    /\ IdleYoutube /\ IdleTopicRun
    /\ IdleMain
    /\ IdleRead
    /\ IdleKpi
    /\ IdleExtract

NextTopic == AssignTopicLabel

SpecTopic == InitTopic /\ [][NextTopic]_vars

(***************************************************************************)
(* Properties                                                              *)
(***************************************************************************)

\* C1: clean_text is total.  Whatever the input (None, NaN, a number, the
\* empty string, any string), the call returns a string and raises
\* nothing, and a non-string input gives the empty string; the same holds
\* when it is applied to its own result.
C1_CleanTextTotal ==
    /\ cleaned # Unset =>
          /\ cleaned.kind = "str"
          /\ ~IsStr(text) => cleaned = PyStr(<<>>)
          /\ text = PyStr(<<>>) => cleaned = PyStr(<<>>)
    /\ recleaned # Unset => recleaned.kind = "str"

\* a number has been cleaned to the empty string
C1_Witness == text = PyInt(7) /\ cleaned = PyStr(<<>>)

\* C2: clean_text is idempotent: cleaning a cleaned text changes nothing.
C2_CleanTextIdempotent == recleaned # Unset => recleaned = cleaned

\* C3: the divisor score + 1 of comment_ratio is never zero, so every
\* comment_ratio of a processed frame is a finite quotient.
C3_NoZeroDivisor ==
    processed_csv # None =>
        \A i \in 1..Len(processed_csv.rows) :
            processed_csv.rows[i].comment_ratio.kind = "ratio"

\* every call of the classifier so far returned one prediction per string
OnePerString ==
    \A c \in 1..Len(calls) :
        calls[c].status = "ok" /\ Len(calls[c].out) = Len(calls[c].batch)

\* C4: when the classifier returns one prediction per string of each batch,
\* analyze_sentiment returns as many results as there are texts, and the
\* i-th result is the prediction the classifier gave for the i-th text
\* (the k-th answer of the call that received it as its k-th string).
C4_OneResultPerTextInOrder ==
    (sa_pc = "returned" /\ OnePerString) =>
        /\ results # None
        /\ Len(results.val) = Len(texts)
        /\ \A i \in 1..Len(texts) :
              LET b == ((i - 1) \div batch_size) + 1
                  k == ((i - 1) % batch_size) + 1
              IN  /\ b <= Len(calls)
                  /\ k <= Len(calls[b].batch)
                  /\ calls[b].batch[k] = preprocess_text(texts[i])
                  /\ results.val[i] = calls[b].out[k]

\* three texts went through two batches whose answers differ
C4_Witness ==
    /\ sa_pc = "returned" /\ OnePerString
    /\ Len(texts) = 3 /\ batch_size = 2 /\ Len(calls) = 2
    /\ results.val[1] # results.val[3]
    /\ texts[1] # texts[3]

\* the rows of the frame after process_results that carry a score
Enriched ==
    IF sa_pc \in {"save", "done"} /\ sa_df # Unset
    THEN {i \in 1..Len(sa_df.rows) : sa_df.rows[i].sentiment_score # Absent}
    ELSE {}

LoadedPosts == IF mongo_up THEN mongo_docs ELSE json_posts.rows

FirstIndex(rows, key) ==
    CHOOSE i \in 1..Len(rows) :
        rows[i].post_id = key /\ \A j \in 1..(i - 1) : rows[j].post_id # key

\* C6: the processed frame holds, for every post_id loaded, exactly one
\* record, which is the earliest loaded record with that post_id, and the
\* records kept are in their original relative order.
C6_DedupeKeepsFirst ==
    processed_csv # None =>
        LET in  == LoadedPosts
            out == processed_csv.rows
        IN  /\ \A i \in 1..Len(in) :
                  Cardinality({j \in 1..Len(out) : out[j].post_id = in[i].post_id}) = 1
            /\ \A j \in 1..Len(out) :
                  /\ \E i \in 1..Len(in) : in[i].post_id = out[j].post_id
                  /\ LET f == FirstIndex(in, out[j].post_id)
                     IN  /\ out[j].title = fillna(in[f].title)
                         /\ out[j].created_utc = in[f].created_utc
            /\ \A j1, j2 \in 1..Len(out) :
                  j1 < j2 => FirstIndex(in, out[j1].post_id)
                               < FirstIndex(in, out[j2].post_id)

\* a post between two posts of one key: the later of the two is gone
C6_Witness ==
    /\ processed_csv # None
    /\ Len(LoadedPosts) = 3
    /\ LoadedPosts[1].post_id = LoadedPosts[3].post_id
    /\ LoadedPosts[1].post_id # LoadedPosts[2].post_id
    /\ LoadedPosts[1].title # LoadedPosts[3].title
    /\ Len(processed_csv.rows) = 2
    /\ processed_csv.rows[1].title = LoadedPosts[1].title

InSeq(x, seq) == \E i \in 1..Len(seq) : seq[i] = x

\* C7: after a load that succeeded the table holds exactly the rows of the
\* frame that was loaded: as many rows, the same rows in order, and no row
\* the table held before that is not in the frame.
C7_ReplaceAll ==
    load_ret = PyTrue =>
        /\ youtube_processed # None
        /\ Len(youtube_processed.rows) = Len(final_df.rows)
        /\ youtube_processed.rows = final_df.rows
        /\ table_before # None =>
              \A i \in 1..Len(table_before.rows) :
                  ~InSeq(table_before.rows[i], final_df.rows)
                      => ~InSeq(table_before.rows[i], youtube_processed.rows)

\* a second load succeeded on a table that held a row the new frame lacks
C7_Witness ==
    /\ load_ret = PyTrue
    /\ loads = 2
    /\ table_before # None
    /\ final_df.rows # <<>>
    /\ \E i \in 1..Len(table_before.rows) :
          ~InSeq(table_before.rows[i], final_df.rows)

\* the categories in the order of their checks
CategoryOrder ==
    << [label |-> "Pricing & Budget",     words |-> PricingWords],
       [label |-> "Features & Tools",     words |-> FeatureWords],
       [label |-> "Integration & Data",   words |-> IntegrationWords],
       [label |-> "Competitive Analysis", words |-> CompetitiveWords],
       [label |-> "Analytics & ROI",      words |-> AnalyticsWords] >>

\* C8: the label is that of the first category, in the order Pricing,
\* Features, Integration, Competitive, Analytics, one of whose keywords is
\* contained in the joined, lower-cased top words, and General Discussion
\* when there is none; top words with a price term and a roi term get
\* Pricing & Budget.
C8_FirstMatchWins ==
    topic_label # Unset =>
        LET str  == LowerSeq(Join(top_words))
            hits == {k \in 1..Len(CategoryOrder) : AnyIn(CategoryOrder[k].words, str)}
        IN  /\ hits = {} => topic_label = PyName("General Discussion")
            /\ hits # {} =>
                  \E k \in hits :
                      /\ \A h \in hits : k <= h
                      /\ topic_label = PyName(CategoryOrder[k].label)
            /\ (Contains(str, <<"p", "r", "i", "c", "e">>)
                  /\ Contains(str, <<"r", "o", "i">>))
                  => topic_label = PyName("Pricing & Budget")

\* roi before price still gives Pricing & Budget
C8_Witness ==
    /\ top_words = << <<"r", "o", "i">>, <<"p", "r", "i", "c", "e">> >>
    /\ topic_label = PyName("Pricing & Budget")

\* C9: id is the primary key of youtube_processed: no two rows of the
\* table share an id, and a load whose frame repeats an id does not succeed.
C9_IdIsPrimaryKey ==
    /\ youtube_processed # None =>
          \A i, j \in 1..Len(youtube_processed.rows) :
              i # j => youtube_processed.rows[i].id # youtube_processed.rows[j].id
    /\ load_ret = PyTrue =>
          \A i, j \in 1..Len(final_df.rows) :
              i # j => final_df.rows[i].id # final_df.rows[j].id

\* the classifier raised on some batch of this run
ClassifierFailed == \E c \in 1..Len(calls) : calls[c].status = "raised"

\* C10: once the classifier has raised on a batch, analyze_sentiment has
\* returned None (the earlier predictions are gone), analyze() goes nowhere
\* but to its return of False, and no results file exists.
C10_FailedBatchAbortsRun ==
    ClassifierFailed =>
        /\ results = None
        /\ sa_pc \in {"returned", "done"}
        /\ sa_pc = "done" => sa_ret = PyFalse
        /\ results_file = None

\* the second batch failed after the first was classified, and the run
\* returned False
C10_Witness ==
    /\ ClassifierFailed
    /\ Len(calls) = 2
    /\ calls[1].status = "ok" /\ calls[1].out # <<>>
    /\ sa_pc = "done"
    /\ sa_ret = PyFalse
    /\ results_file = None

\* C11: a classifier result list whose length differs from the number of
\* records is fatal: analyze() does not return True and no results file is
\* saved.
C11_LengthMismatchFatal ==
    (sa_pc = "done" /\ sa_df # Unset /\ results # None
        /\ Len(results.val) # Len(sa_df.rows))
        => (sa_ret # PyTrue /\ results_file = None)

\* the text of the k-th string of the c-th call
TextSent(c, k) == texts[(c - 1) * batch_size + k]

\* C12: every string handed to the classifier is at most max_length long
\* and is the prefix of its input text (the empty string for a non-string);
\* the list of texts and the full_text of the records stay as they were
\* loaded.
C12_TruncatedCopyOnly ==
    /\ \A c \in 1..Len(calls) : \A k \in 1..Len(calls[c].batch) :
          LET t == TextSent(c, k)
              s == calls[c].batch[k]
          IN  /\ s.kind = "str"
              /\ s.len <= max_length
              /\ IF IsStr(t)
                 THEN s = Prefix(t.doc, Min(t.len, max_length))
                 ELSE s = EmptyText
    /\ sa_pc \in {"batch", "returned"} =>
          /\ sa_df = processed_csv
          /\ texts = [i \in 1..Len(processed_csv.rows) |->
                        fillna_text(processed_csv.rows[i].full_text)]
    /\ sa_df # Unset =>
          /\ Len(sa_df.rows) = Len(processed_csv.rows)
          /\ \A i \in 1..Len(sa_df.rows) :
                sa_df.rows[i].full_text = processed_csv.rows[i].full_text

\* an over-long text went out cut to max_length and a number went out as
\* the empty string, and both are still in the list
C12_Witness ==
    /\ sa_pc = "returned"
    /\ \E c \in 1..Len(calls) : \E k \in 1..Len(calls[c].batch) :
          /\ TextSent(c, k).kind = "str"
          /\ TextSent(c, k).len = max_length + 1
          /\ calls[c].batch[k].len = max_length
    /\ \E c \in 1..Len(calls) : \E k \in 1..Len(calls[c].batch) :
          /\ TextSent(c, k) = PyFloat(7)
          /\ calls[c].batch[k] = EmptyText

\* C15: the gate compares strictly: a result whose score is exactly 0.6
\* keeps the classifier's label as its category, and a category that is not
\* the classifier's label belongs to a score strictly below 0.6.
C15_StrictThreshold ==
    \A i \in Enriched :
        LET row == sa_df.rows[i]
            raw == PyName(results.val[i].label)
        IN  /\ row.sentiment_score.val = ConfidenceThreshold
                => row.sentiment_category = raw
            /\ row.sentiment_category # raw
                => /\ row.sentiment_score.val < ConfidenceThreshold
                   /\ row.sentiment_category = PyName("NEUTRAL")

\* a POSITIVE answer at exactly 0.6 stayed POSITIVE
C15_Witness ==
    \E i \in Enriched :
        /\ sa_df.rows[i].sentiment_score = PyFloat(ConfidenceThreshold)
        /\ results.val[i].label = "POSITIVE"
        /\ sa_df.rows[i].sentiment_category = PyName("POSITIVE")

\* ceil(n / b)
NumBatches(n, b) == (n + b - 1) \div b

\* the calls that received the i-th text
SentIn(i) ==
    {ck \in (1..Len(calls)) \X (1..batch_size) :
        ck[2] <= Len(calls[ck[1]].batch) /\ (ck[1] - 1) * batch_size + ck[2] = i}

\* C16: the c-th call of the classifier receives the c-th consecutive slice
\* of batch_size texts (the last one may be shorter), the calls follow one
\* another with no call after a failed one, and every text is sent exactly
\* once when the loop completes and at most once when a batch fails.
C16_SequentialBatches ==
    /\ \A c \in 1..Len(calls) :
          /\ calls[c].batch =
                PreprocessBatch(SubSeq(texts, (c - 1) * batch_size + 1,
                                       Min(c * batch_size, Len(texts))))
          /\ Len(calls[c].batch) >= 1
          /\ Len(calls[c].batch) <= batch_size
          /\ c < Len(calls) => calls[c].status = "ok"
    /\ calls # <<>> => Len(calls) <= NumBatches(Len(texts), batch_size)
    /\ sa_pc = "batch" => batch_i = Len(calls) * batch_size
    /\ \A i \in 1..Len(texts) : Cardinality(SentIn(i)) <= 1
    /\ (sa_pc = "returned" /\ ~ClassifierFailed) =>
          /\ Len(calls) = NumBatches(Len(texts), batch_size)
          /\ \A i \in 1..Len(texts) : Cardinality(SentIn(i)) = 1

\* three texts went out as a batch of two and a batch of one
C16_Witness ==
    /\ sa_pc = "returned" /\ ~ClassifierFailed
    /\ Len(texts) = 3 /\ batch_size = 2
    /\ Len(calls) = 2
    /\ Len(calls[1].batch) = 2 /\ Len(calls[2].batch) = 1

\* the three values of the label enum
LabelEnum == {PyName("POSITIVE"), PyName("NEGATIVE"), PyName("NEUTRAL")}

\* C13 as stated: the sentiment_label of every row persisted in the sink is
\* one of POSITIVE, NEGATIVE, NEUTRAL, with or without a matching sentiment
\* row.
C13_LabelInEnum ==
    youtube_processed # None =>
        \A i \in 1..Len(youtube_processed.rows) :
            youtube_processed.rows[i].sentiment_label \in LabelEnum

\* C13, amended: after a load every processed record has its rows in the
\* sink, and the sentiment_label and sentiment_score of a persisted row are
\* those of a sentiment row with the same id, NaN when the sentiment file
\* has no row with that id, and None when there is no sentiment file.
C13_LabelFromSentimentRowOrNull ==
    load_ret = PyTrue =>
        /\ \A j \in 1..Len(processed_json.rows) :
              \E i \in 1..Len(youtube_processed.rows) :
                  youtube_processed.rows[i].id = processed_json.rows[j].id
        /\ \A i \in 1..Len(youtube_processed.rows) :
              LET row == youtube_processed.rows[i]
              IN  IF sentiment_csv = None
                  THEN row.sentiment_label = None /\ row.sentiment_score = None
                  ELSE LET m == {k \in 1..Len(sentiment_csv.rows) :
                                    sentiment_csv.rows[k].id = row.id}
                       IN  IF m = {}
                           THEN row.sentiment_label = NaN
                                /\ row.sentiment_score = NaN
                           ELSE \E k \in m :
                                  /\ row.sentiment_label =
                                        sentiment_csv.rows[k].sentiment_label
                                  /\ row.sentiment_score =
                                        sentiment_csv.rows[k].sentiment_score

\* one record found its sentiment row and another did not
C13_Witness ==
    /\ load_ret = PyTrue
    /\ sentiment_csv # None
    /\ \E i, j \in 1..Len(youtube_processed.rows) :
          /\ youtube_processed.rows[i].sentiment_label \in LabelEnum
          /\ youtube_processed.rows[j].sentiment_label = NaN

\* pd.to_datetime fails on the loaded posts
TimestampFails ==
    \E i \in 1..Len(LoadedPosts) : ~Parseable(LoadedPosts[i].created_utc)

TemporalFields == {"hour", "day_of_week", "day_name", "month"}

\* the fields of a processed row other than the timestamp and its features
OtherFields(r) == (DOMAIN r) \ (TemporalFields \cup {"created_utc"})

\* the processed rows when the temporal step is left out altogether
WithoutTemporalStep(raw) ==
    drop_duplicates(process_comments(calculate_engagement_metrics(
        [i \in 1..Len(raw) |-> WithColumns(raw[i])])))

\* C20: when the timestamps of the loaded posts fail to parse, process()
\* still writes and returns the processed frame; no row has hour,
\* day_of_week, day_name or month, and every other field of every row is
\* what the later steps (metrics, comments, deduplication) give without
\* the temporal step.
C20_TimestampFailureLocal ==
    (processed_csv # None /\ TimestampFails) =>
        LET out  == processed_csv.rows
            want == WithoutTemporalStep(LoadedPosts)
        IN  /\ proc_ret = processed_csv
            /\ Len(out) = Len(want)
            /\ \A i \in 1..Len(out) :
                  /\ \A f \in TemporalFields : out[i][f] = Absent
                  /\ \A f \in OtherFields(out[i]) : out[i][f] = want[i][f]
                  /\ out[i].comment_ratio # Absent
                  /\ out[i].num_comments_extracted # Absent

\* a frame with one timestamp that parses and one that does not was
\* processed and written, deduplicated, without temporal features
C20_Witness ==
    /\ processed_csv # None
    /\ TimestampFails
    /\ \E i \in 1..Len(LoadedPosts) : Parseable(LoadedPosts[i].created_utc)
    /\ Len(LoadedPosts) = 3
    /\ Len(processed_csv.rows) = 2
    /\ processed_csv.rows[1].hour = Absent
    /\ processed_csv.rows[1].engagement_score # Absent

\* the frame load() hands to insert_to_database
Handed == merge_data(processed_json, sentiment_csv).rows

\* the columns of the sink schema that the processed files can carry
SchemaColumns == {"id", "score", "sentiment_label", "sentiment_score"}

CommentOf(row) ==
    CHOOSE c \in {youtube_comments.rows[i] : i \in 1..Len(youtube_comments.rows)} :
        c.id = row.id

\* C19: every processed Reddit post has engagement_score = 0.7 * score
\* + 0.3 * num_comments, and every processed YouTube comment has score =
\* like_count, num_comments = reply_count and engagement_score = 1.0 *
\* like_count + 2.0 * reply_count (the scores are in tenths).
C19_PerSourceWeights ==
    /\ processed_csv # None =>
          \A i \in 1..Len(processed_csv.rows) :
              LET row == processed_csv.rows[i]
              IN  row.engagement_score =
                      PyFloat(7 * row.score + 3 * row.num_comments)
    /\ yt_ret = PyName("complete") =>
          \A i \in 1..Len(processed_json.rows) :
              LET row == processed_json.rows[i]
                  c   == CommentOf(row)
              IN  /\ row.score = c.like_count
                  /\ row.num_comments = c.reply_count
                  /\ row.engagement_score =
                        PyFloat(10 * c.like_count + 20 * c.reply_count)

\* a post and a comment with the same counters, 2 and 3, were processed:
\* 2.3 for the post, 8.0 for the comment
C19_Witness ==
    /\ processed_csv # None /\ yt_ret = PyName("complete")
    /\ \E i \in 1..Len(processed_csv.rows) :
          /\ processed_csv.rows[i].score = 2
          /\ processed_csv.rows[i].num_comments = 3
          /\ processed_csv.rows[i].engagement_score = PyFloat(23)
    /\ \E i \in 1..Len(processed_json.rows) :
          /\ processed_json.rows[i].score = 2
          /\ processed_json.rows[i].num_comments = 3
          /\ processed_json.rows[i].engagement_score = PyFloat(80)

\* the six categories of _assign_topic_label
TopicLabels ==
    { PyName(l) : l \in {"Pricing & Budget", "Features & Tools",
                         "Integration & Data", "Competitive Analysis",
                         "Analytics & ROI", "General Discussion"} }

\* C17: after TopicModeler.run returned True, every record of the results
\* file has a topic_id, the topic of the highest probability of its own
\* distribution, and a topic_label of the six categories; also when some
\* full_text has 20 characters or fewer.
C17_EveryRecordOneTopic ==
    (tm_ret = PyTrue /\ tm_file # None) =>
        /\ Len(tm_dists) = Len(tm_file.rows)
        /\ \A i \in 1..Len(tm_file.rows) :
              /\ tm_file.rows[i].topic_id = PyInt(ArgMax(tm_dists[i]) - 1)
              /\ tm_file.rows[i].topic_label \in TopicLabels

\* when no text was filtered out, the records do get their topics
C17_AllLongAssigned ==
    /\ tm_ret = PyTrue /\ tm_file # None
    /\ Len(tm_file.rows) = 2
    /\ tm_file.rows[1].topic_id = PyInt(0)
    /\ tm_file.rows[2].topic_id = PyInt(4)
    /\ tm_file.rows[1].topic_label = PyName("Analytics & ROI")

\* the rows of a file, none when there is no file
RowsOf(f) == IF f = None THEN {} ELSE {f.rows[i] : i \in 1..Len(f.rows)}

\* C14: after the processing, the sentiment analysis and the load have run
\* in that order, the file the sink read its sentiment from is the file the
\* sentiment stage wrote, and every persisted row carries the
\* sentiment_label and the sentiment_score that file holds for its id.
C14_SinkLoadsEnrichedLabels ==
    (yt_ret # Unset /\ sa_ret = PyTrue /\ results_file # None
        /\ load_ret = PyTrue) =>
        /\ sentiment_csv = results_file
        /\ \A p \in RowsOf(youtube_processed) :
              \E r \in RowsOf(results_file) :
                  /\ "id" \in DOMAIN r
                  /\ r.id = p.id
                  /\ r.sentiment_label = p.sentiment_label
                  /\ r.sentiment_score = p.sentiment_score

\* the three stages ended well: a label was written to
\* data/sentiment_results.csv, and the row persisted has none
C14_LabelLost ==
    /\ yt_ret = PyName("complete") /\ sa_ret = PyTrue /\ load_ret = PyTrue
    /\ results_file # None
    /\ \E r \in RowsOf(results_file) : r.sentiment_label = PyName("POSITIVE")
    /\ sentiment_csv = None
    /\ \E p \in RowsOf(youtube_processed) : p.sentiment_label = None

\* len() of a source text, 0 for a missing one
CharCount(v) == IF v.kind \in {"nan", "none"} THEN 0 ELSE Len(v.val)

\* C21: every processed record has title_length and body_length equal to
\* the number of characters of its source title and body, 0 when the source
\* is missing or empty and never null, and total_text_length is their sum.
C21_LengthsAreCounts ==
    processed_csv # None =>
        \A i \in 1..Len(processed_csv.rows) :
            LET row == processed_csv.rows[i]
                src == LoadedPosts[row.post_id]
            IN  /\ row.title_length = PyInt(CharCount(src.title))
                /\ row.body_length = PyInt(CharCount(src.body))
                /\ row.total_text_length =
                       PyInt(CharCount(src.title) + CharCount(src.body))

\* a record without title and one with an empty body were processed
C21_Witness ==
    /\ processed_csv # None
    /\ Len(processed_csv.rows) = 2
    /\ LoadedPosts[1].title = NaN
    /\ LoadedPosts[1].body = PyStr(<<"a", "*", " ", " ", "W">>)
    /\ processed_csv.rows[1].title_length = PyInt(0)
    /\ processed_csv.rows[1].total_text_length = PyInt(5)
    /\ LoadedPosts[2].title = PyStr(<<"H", "i", "!">>)
    /\ LoadedPosts[2].body = PyStr(<<>>)
    /\ processed_csv.rows[2].body_length = PyInt(0)
    /\ processed_csv.rows[2].total_text_length = PyInt(3)

\* C22: a failed stage run ends with a non-zero exit status: whenever
\* analyze() or load() returned False, the main() that called it exits with
\* a status other than 0.
C22_FailureExitsNonZero ==
    /\ (sa_exit # Unset /\ sa_ret = PyFalse) => sa_exit # PyInt(0)
    /\ (load_exit # Unset /\ load_ret = PyFalse) => load_exit # PyInt(0)

\* the only runs with a non-zero status are those an exception left
C22_ExceptionExitsNonZero ==
    /\ load_ret = Raised("KeyError")
    /\ load_exit = PyInt(1)

\* C23: process() transforms the documents of the collection when the
\* connection was made and the posts of the JSON files exactly when it was
\* not; it returns None, with nothing written, whenever the store it read
\* gave no data, and it never falls back after a connection was made.
C23_FallbackOnlyWithoutConnection ==
    /\ processed_csv # None =>
          /\ LoadedPosts # <<>>
          /\ processed_csv = Frame(Transform(LoadedPosts))
    /\ (proc_ret # Unset /\ mongo_up /\ mongo_docs = <<>>) =>
          proc_ret = None /\ processed_csv = None
    /\ (proc_ret # Unset /\ ~mongo_up /\ ~HasData(json_posts)) =>
          proc_ret = None /\ processed_csv = None

\* the collection could not be reached and the JSON posts were processed
C23_Witness ==
    /\ ~mongo_up
    /\ mongo_docs # <<>>
    /\ processed_csv # None
    /\ Len(processed_csv.rows) = 2
    /\ processed_csv.rows[1].title = PyStr(<<"j">>)
    /\ processed_csv.rows[2].title = PyStr(<<"k">>)

UniqueKeys(rows) ==
    \A i, j \in 1..Len(rows) :
        (rows[i].date = rows[j].date /\ rows[i].name = rows[j].name) => i = j

\* C25: after any number of runs of generate_kpi_data.main, the last of
\* which succeeded, marketing_kpis has 8 rows, channel_performance 4,
\* data_source_performance 84, campaign_performance 96 and time_series_data
\* 48, and no table has two rows with the same (date, dimension) key.
C25_ReplaceAllAggregates ==
    (kpi_pc = "idle" /\ kpi_ret = None) =>
        /\ Len(kpi_db["marketing_kpis"]) = 8
        /\ Len(kpi_db["channel_performance"]) = 4
        /\ Len(kpi_db["data_source_performance"]) = 84
        /\ Len(kpi_db["campaign_performance"]) = 96
        /\ Len(kpi_db["time_series_data"]) = 48
        /\ \A t \in TableNames : UniqueKeys(kpi_db[t])

\* a second run has succeeded
C25_Witness ==
    /\ kpi_pc = "idle" /\ kpi_ret = None
    /\ kpi_runs = 2
    /\ Len(kpi_db["campaign_performance"]) = 96

\* C26: merge_data neither adds nor drops records: the merged frame has one
\* row per processed record, in the processed order, with the record's own
\* fields unchanged, and null sentiment columns for a record without a
\* sentiment row.
C26_MergeKeepsRecords ==
    final_df # Unset =>
        /\ Len(final_df.rows) = Len(processed_json.rows)
        /\ \A i \in 1..Len(final_df.rows) :
              /\ i <= Len(processed_json.rows)
              /\ final_df.rows[i].id = processed_json.rows[i].id
              /\ final_df.rows[i].score = processed_json.rows[i].score
              /\ (sentiment_csv = None
                    \/ Matches(processed_json.rows[i], sentiment_csv.rows) = <<>>)
                 => final_df.rows[i].sentiment_label \in {None, NaN}

\* with sentiment ids that do not repeat, the merge keeps the records
C26_UniqueIdsKept ==
    /\ final_df # Unset
    /\ sentiment_csv # None
    /\ Len(sentiment_csv.rows) = 2
    /\ sentiment_csv.rows[1].id # sentiment_csv.rows[2].id
    /\ Len(processed_json.rows) = 2
    /\ Len(final_df.rows) = 2

\* C27: analyze() returns True only if the enriched results were written:
\* when it has returned True the results file holds every input record with
\* its sentiment columns, and when a step failed it has returned False.
C27_TrueOnlyIfWritten ==
    (sa_pc = "done" /\ sa_ret = PyTrue) =>
        /\ results_file # None
        /\ Len(results_file.rows) = Len(processed_csv.rows)
        /\ \A i \in 1..Len(results_file.rows) :
              /\ results_file.rows[i].post_id = processed_csv.rows[i].post_id
              /\ results_file.rows[i].sentiment_label # Absent
              /\ results_file.rows[i].sentiment_score # Absent

\* a run that returned True with the enriched records written to the file
C27_WrittenRun ==
    /\ sa_pc = "done" /\ sa_ret = PyTrue
    /\ results_file # None
    /\ Len(results_file.rows) = 2
    /\ \A i \in 1..2 : results_file.rows[i].sentiment_label # Absent

\* a comment whose text, the links and mentions removed and the rest
\* trimmed, has at least ten characters
KeptComment(c) == Len(clean_comment(c.text.val)) >= MinCommentLength

\* C28: process_youtube_data returns a sub-sequence of its input in input
\* order: a comment is kept exactly when its cleaned text has at least ten
\* characters, and the id, author, like_count (as score) and reply_count (as
\* num_comments) of a kept comment are unchanged.
C28_KeptInOrderUnchanged ==
    yt_ret = PyName("complete") =>
        LET kept == SelectSeq(youtube_comments.rows, KeptComment)
            out  == processed_json.rows
        IN  /\ Len(out) = Len(kept)
            /\ \A i \in 1..Len(out) :
                  /\ i <= Len(kept)
                  /\ out[i].id = kept[i].id
                  /\ out[i].author = kept[i].author
                  /\ out[i].score = kept[i].like_count
                  /\ out[i].num_comments = kept[i].reply_count

\* of two comments the first, too short once its mention is removed, was
\* dropped and the second kept
C28_Witness ==
    /\ yt_ret = PyName("complete")
    /\ Len(youtube_comments.rows) = 2
    /\ Len(youtube_comments.rows[1].text.val) >= MinCommentLength
    /\ ~KeptComment(youtube_comments.rows[1])
    /\ Len(processed_json.rows) = 1
    /\ processed_json.rows[1].id = "b"
    /\ processed_json.rows[1].score = 2

RequestRaised == \E j \in 1..Len(requests) : requests[j].status = "raised"

\* C29: extract_video_comments returns at most max_comments comments when
\* every page holds at most maxResults items; it asks for a page only while
\* fewer than max_comments are collected and the page before had a token;
\* and once a request has raised HttpError it returns the empty list,
\* whatever the earlier pages held.
C29_BoundedStopsAndDiscards ==
    /\ ((\A j \in 1..Len(requests) :
            requests[j].items <= requests[j].maxResults)
          /\ ex_pc = "done")
       => Len(ex_ret.val) <= max_comments
    /\ \A j \in 1..Len(requests) :
          /\ requests[j].before < max_comments
          /\ j > 1 => /\ requests[j - 1].status = "ok"
                      /\ requests[j - 1].nextPageToken # None
                      /\ requests[j].pageToken = requests[j - 1].nextPageToken
    /\ (ex_pc = "done" /\ ~RequestRaised)
       => /\ ex_ret = PyList(comments)
          /\ comments = [k \in 1..Len(comments) |-> k]
          /\ \/ Len(comments) >= max_comments
             \/ requests[Len(requests)].nextPageToken = None
    /\ RequestRaised => (ex_pc = "done" /\ ex_ret = PyList(<<>>))

\* the second page raised after the first had brought comments, and the
\* call returned the empty list
C29_Witness ==
    /\ ex_pc = "done"
    /\ Len(requests) = 2
    /\ requests[1].status = "ok" /\ requests[1].items >= 1
    /\ requests[2].status = "raised"
    /\ comments # <<>>
    /\ ex_ret = PyList(<<>>)

\* C30: after extract_topics has returned, self.topics holds exactly
\* n_topics entries and the entry at index i has topic_id i, however often
\* run() was called on the instance; no record of the results file is
\* labelled 'Unknown'.
C30_TopicsIndexedById ==
    tm_topics # <<>> =>
        /\ Len(tm_topics) = n_topics
        /\ \A i \in 1..Len(tm_topics) : tm_topics[i].topic_id = i - 1
        /\ tm_file # None =>
              \A i \in 1..Len(tm_file.rows) :
                  tm_file.rows[i].topic_label # PyName("Unknown")

\* after the first run on a fresh instance the list holds n_topics entries
\* indexed by their topic_id
C30_FirstRunIndexed ==
    /\ tm_ret = PyTrue
    /\ tm_file # None
    /\ Len(tm_topics) = n_topics
    /\ \A i \in 1..n_topics : tm_topics[i].topic_id = i - 1

====
